---- MODULE Spec2Model ----
(***************************************************************************)
(* A model of the North Atlantic migration pipeline: the cleaning scripts  *)
(* (Code/migration-code-preprocessing.py, migration-code-postprocessing.py)*)
(* and the two dashboard revisions (streamlit.py, streamlit_app.py).       *)
(*                                                                         *)
(* Cell values of a pandas table are tagged records, so that values of     *)
(* different Python types can be compared:                                 *)
(*   [t |-> "nan"]                 NaN / NaT / None (a missing value)     *)
(*   [t |-> "num", n |-> 1901]     an integer or float                    *)
(*   [t |-> "str", s |-> <<..>>]   a string, as a sequence of characters  *)
(*   [t |-> "raw", k |-> <<..>>]   a date string, as a sequence of tokens *)
(*   [t |-> "ts", y, m, d]         a pandas Timestamp                     *)
(*   [t |-> "bool", b |-> TRUE]    a boolean                              *)
(***************************************************************************)
EXTENDS Integers, Sequences, FiniteSets, TLC

VARIABLES
    fs,           \* the working directory: file name -> file
    pre_status,   \* outcome of the last run of the preprocessing script
    post_status,  \* outcome of the last run of the postprocessing script
    pre_df,       \* the preprocessing script's df when it last ended
    cache,        \* st.cache_data entry of load_data
    load_status,  \* outcome of the last call of load_data
    np_random,    \* the state of numpy's global random generator
    gs_df,        \* get_sample called on its own: the df argument
    gs_n,         \*   the sample_per_bin argument
    gs_out,       \*   what the call gave: [called, raised, df]
    km_df,        \* a clustered table: df_km_rel with its Cluster column
    profiles,     \* cluster_profiles_rel computed from it: [done, of]
    rev,          \* the dashboard script the server runs
    show_intro,   \* st.session_state.show_intro of each session
    pc,           \* where each session's script run stands
    seed,         \* the Random Seed widget of each session
    sampled_df,   \* sampled_df of each session's last run
    kmodes,       \* what the clustering tab of each session's last run did
    temporal,     \* what the temporal tab of each session's last run showed
    selection,    \* the filter run on its own: the year range and selected_df
    letter_bins,  \* the list bins of the letter-selection script
    birthplaces,  \* annotate_chart on its own: the birthplaces selected
    annotated     \*   the event labels drawn: [done, layers]

varsPipe == <<fs, pre_status, post_status, pre_df, cache, load_status>>

varsSample == <<np_random, gs_df, gs_n, gs_out>>

varsProfile == <<km_df, profiles>>

varsDash == <<rev, show_intro, pc, seed, sampled_df, kmodes, temporal, selection>>

varsAside == <<letter_bins, birthplaces, annotated>>

vars == <<varsPipe, varsSample, varsProfile, varsDash, varsAside>>

----------------------------------------------------------------------------
(* Cell values *)

NaN == [t |-> "nan"]

Num(n) == [t |-> "num", n |-> n]

Str(s) == [t |-> "str", s |-> s]

RawDate(k) == [t |-> "raw", k |-> k]

Ts(y, m, d) == [t |-> "ts", y |-> y, m |-> m, d |-> d]

Bool(b) == [t |-> "bool", b |-> b]

isna(v) == v.t = "nan"

----------------------------------------------------------------------------
(* Strings as sequences of one-character strings *)

Whitespace == {" "}

UPPER == <<"A", "B", "C", "D", "E", "F", "G", "H", "I", "J", "K", "L", "M",
           "N", "O", "P", "Q", "R", "S", "T", "U", "V", "W", "X", "Y", "Z">>

LOWER == <<"a", "b", "c", "d", "e", "f", "g", "h", "i", "j", "k", "l", "m",
           "n", "o", "p", "q", "r", "s", "t", "u", "v", "w", "x", "y", "z">>

Lower(c) ==
    IF \E i \in 1..Len(UPPER) : UPPER[i] = c
    THEN LOWER[CHOOSE i \in 1..Len(UPPER) : UPPER[i] = c]
    ELSE c

LowerStr(s) == [i \in 1..Len(s) |-> Lower(s[i])]

\* s[i..] starts with pat
StartsAt(s, i, pat) ==
    /\ i + Len(pat) - 1 <= Len(s)
    /\ \A j \in 1..Len(pat) : s[i + j - 1] = pat[j]

Contains(s, pat) == \E i \in 1..Len(s) : StartsAt(s, i, pat)

\* str.split(pat).str[-1]: the scan is left to right over non-overlapping
\* matches; the last piece is what follows the last match taken.
RECURSIVE LastPieceFrom(_, _, _, _)
LastPieceFrom(s, i, start, pat) ==
    IF i > Len(s) THEN SubSeq(s, start, Len(s))
    ELSE IF StartsAt(s, i, pat)
         THEN LastPieceFrom(s, i + Len(pat), i + Len(pat), pat)
         ELSE LastPieceFrom(s, i + 1, start, pat)

SplitLast(s, pat) == LastPieceFrom(s, 1, 1, pat)

RECURSIVE LStrip(_)
LStrip(s) ==
    IF s # <<>> /\ Head(s) \in Whitespace THEN LStrip(Tail(s)) ELSE s

RECURSIVE RStrip(_)
RStrip(s) ==
    IF s # <<>> /\ s[Len(s)] \in Whitespace
    THEN RStrip(SubSeq(s, 1, Len(s) - 1))
    ELSE s

Strip(s) == RStrip(LStrip(s))

AND_PAT == <<" ", "a", "n", "d", " ">>

----------------------------------------------------------------------------
(* Date strings.  A date string is a sequence of tokens: a run of digits   *)
(* (its value v and its width w), a month abbreviation (v = month number), *)
(* a separator character c, or a word that is none of these.               *)

NumTok(v, w) == [k |-> "num", v |-> v, w |-> w, c |-> ""]

MonTok(m) == [k |-> "mon", v |-> m, w |-> 3, c |-> ""]

SepTok(c) == [k |-> "sep", v |-> 0, w |-> 1, c |-> c]

WordTok == [k |-> "word", v |-> 0, w |-> 4, c |-> ""]

\* the formats with the numeric four-digit-year date read day first
FORMATS_day_first ==
    << <<"d", " ", "b", " ", "Y">>,
       <<"d", "-", "b", "-", "y">>,
       <<"d", "/", "m", "/", "Y">>,
       <<"m", "/", "d", "/", "y">> >>

\* the formats of parse_dates, in the order of the for loop; each is a
\* sequence of strptime directives and literal separators
FORMATS ==
    << <<"d", " ", "b", " ", "Y">>,
       <<"d", "-", "b", "-", "y">>,
       <<"m", "/", "d", "/", "Y">>,
       <<"m", "/", "d", "/", "y">> >>

IsLeap(y) == (y % 4 = 0 /\ y % 100 # 0) \/ y % 400 = 0

DaysInMonth(y, m) ==
    IF m = 2 THEN (IF IsLeap(y) THEN 29 ELSE 28)
    ELSE IF m \in {4, 6, 9, 11} THEN 30 ELSE 31

ValidDate(y, m, d) == m \in 1..12 /\ d \in 1..DaysInMonth(y, m)

\* one strptime directive against one token
MatchTok(tok, dir) ==
    CASE dir = "d" -> tok.k = "num" /\ tok.w \in {1, 2} /\ tok.v \in 1..31
      [] dir = "m" -> tok.k = "num" /\ tok.w \in {1, 2} /\ tok.v \in 1..12
      [] dir = "Y" -> tok.k = "num" /\ tok.w = 4
      [] dir = "y" -> tok.k = "num" /\ tok.w = 2
      [] dir = "b" -> tok.k = "mon"
      [] OTHER -> tok.k = "sep" /\ tok.c = dir

\* %y follows the POSIX convention: 69-99 are 1969-1999, 00-68 are 2000-2068
TwoDigitYear(v) == IF v < 69 THEN 2000 + v ELSE 1900 + v

\* the value of the token under directive dir (0 when fmt has no such directive)
FieldOf(toks, fmt, dir) ==
    IF \E i \in 1..Len(fmt) : fmt[i] = dir
    THEN toks[CHOOSE i \in 1..Len(fmt) : fmt[i] = dir].v
    ELSE 0

\* strptime with exact matching: [ok, y, m, d]; ok = FALSE is a ValueError
strptime(toks, fmt) ==
    IF ~(Len(toks) = Len(fmt) /\ \A i \in 1..Len(fmt) : MatchTok(toks[i], fmt[i]))
    THEN [ok |-> FALSE, y |-> 0, m |-> 0, d |-> 0]
    ELSE LET y == IF \E i \in 1..Len(fmt) : fmt[i] = "Y"
                  THEN FieldOf(toks, fmt, "Y")
                  ELSE TwoDigitYear(FieldOf(toks, fmt, "y"))
             m == IF \E i \in 1..Len(fmt) : fmt[i] = "b"
                  THEN FieldOf(toks, fmt, "b")
                  ELSE FieldOf(toks, fmt, "m")
             d == FieldOf(toks, fmt, "d")
         IN  [ok |-> ValidDate(y, m, d), y |-> y, m |-> m, d |-> d]

\* pd.to_datetime(date_str, format=fmt) on a scalar: a missing value or an
\* empty string gives NaT, a string that does not match raises ValueError,
\* any other type raises (ValueError or TypeError)
to_datetime(v, fmt) ==
    IF isna(v) \/ (v.t = "raw" /\ v.k = <<>>)
    THEN [raised |-> FALSE, val |-> NaN]
    ELSE IF v.t # "raw"
    THEN [raised |-> TRUE, val |-> NaN]
    ELSE LET r == strptime(v.k, fmt)
         IN  IF r.ok THEN [raised |-> FALSE, val |-> Ts(r.y, r.m, r.d)]
             ELSE [raised |-> TRUE, val |-> NaN]

RECURSIVE parse_from(_, _)
parse_from(date_str, i) ==
    IF i > Len(FORMATS) THEN NaN
    ELSE LET r == to_datetime(date_str, FORMATS[i])
         IN  IF r.raised THEN parse_from(date_str, i + 1) ELSE r.val

parse_dates(date_str) == parse_from(date_str, 1)

\* dt_year with the missing years filled in: .dt.year.fillna(0)
dt_year_fillna0(v) == IF v.t = "ts" THEN Num(v.y) ELSE Num(0)

\* Series.dt.year: the year of a Timestamp, missing for NaT
dt_year(v) == IF v.t = "ts" THEN Num(v.y) ELSE NaN

\* how a calendar date is written in each of the four supported formats
\* (f is the index into FORMATS); pad says whether day and month numbers
\* below 10 carry a leading zero
Pad(n, pad) == IF n < 10 /\ ~pad THEN 1 ELSE 2

WriteDate(f, y, m, d, pad) ==
    CASE f = 1 -> <<NumTok(d, Pad(d, pad)), SepTok(" "), MonTok(m), SepTok(" "), NumTok(y, 4)>>
      [] f = 2 -> <<NumTok(d, Pad(d, pad)), SepTok("-"), MonTok(m), SepTok("-"), NumTok(y % 100, 2)>>
      [] f = 3 -> <<NumTok(m, Pad(m, pad)), SepTok("/"), NumTok(d, Pad(d, pad)), SepTok("/"), NumTok(y, 4)>>
      [] f = 4 -> <<NumTok(m, Pad(m, pad)), SepTok("/"), NumTok(d, Pad(d, pad)), SepTok("/"), NumTok(y % 100, 2)>>

----------------------------------------------------------------------------
(* Tables.  A DataFrame is [cols |-> set of column names, rows |-> sequence *)
(* of rows]; a row is a function from the column names to cell values.     *)
(* Columns the cleaning scripts never touch (Gender, BirthPlace, ...) are  *)
(* left out of the rows of the cleaning pass.                              *)

DataFrame(cols, rows) == [cols |-> cols, rows |-> rows]

\* df[col] = df[col].apply(F), or a new column computed from each row
SetCol(df, col, F(_)) ==
    DataFrame(df.cols \cup {col},
              [i \in 1..Len(df.rows) |->
                  [c \in df.cols \cup {col} |->
                      IF c = col THEN F(df.rows[i]) ELSE df.rows[i][c]]])

\* sort_values(by=col): ascending, missing values last; rows with equal
\* keys keep their order
DateKey(v) == IF v.t = "ts" THEN (v.y * 12 + v.m) * 31 + v.d ELSE 0

Before(a, b) ==
    /\ a.t = "ts"
    /\ (b.t # "ts" \/ DateKey(a) < DateKey(b))

RECURSIVE InsertSorted(_, _, _)
InsertSorted(sorted, row, col) ==
    IF sorted = <<>> THEN <<row>>
    ELSE IF Before(row[col], Head(sorted)[col])
         THEN <<row>> \o sorted
         ELSE <<Head(sorted)>> \o InsertSorted(Tail(sorted), row, col)

RECURSIVE SortRows(_, _)
SortRows(rows, col) ==
    IF rows = <<>> THEN <<>>
    ELSE InsertSorted(SortRows(SubSeq(rows, 1, Len(rows) - 1), col),
                      rows[Len(rows)], col)

\* a sort that leaves out the rows whose key is missing
sort_values_dropna(df, col) ==
    DataFrame(df.cols, SortRows(SelectSeq(df.rows, LAMBDA r : ~isna(r[col])), col))

sort_values(df, col) == DataFrame(df.cols, SortRows(df.rows, col))

----------------------------------------------------------------------------
(* Code/migration-code-preprocessing.py *)

\* lines 14-25: ArrivalDate parsed, ArrivalYear derived
ParseArrival(df) ==
    IF "ArrivalDate" \in df.cols
    THEN LET parsed == SetCol(df, "ArrivalDate",
                              LAMBDA r : parse_dates(r["ArrivalDate"]))
         IN  SetCol(parsed, "ArrivalYear", LAMBDA r : dt_year(r["ArrivalDate"]))
    ELSE df

\* lines 28-29
SortByArrival(df) ==
    IF "ArrivalDate" \in df.cols THEN sort_values(df, "ArrivalDate") ELSE df

\* lines 33, 44, 45: the .str accessor of a column that holds no string
\* (read_csv gives float64 to a column whose every field is empty) raises
\* AttributeError; a column of a table without rows is of object dtype
StrRaises(df, col) ==
    /\ col \in df.cols
    /\ Len(df.rows) > 0
    /\ \A i \in 1..Len(df.rows) : df.rows[i][col].t # "str"

\* line 33: str.replace(r'^(RMS|SS|MV|HMS)\s+', '', regex=True)
PREFIXES == << <<"R", "M", "S">>, <<"S", "S">>, <<"M", "V">>, <<"H", "M", "S">> >>

HasPrefix(s, p) ==
    /\ StartsAt(s, 1, p)
    /\ Len(s) > Len(p)
    /\ s[Len(p) + 1] \in Whitespace

\* the prefix matched in any letter case
HasPrefixAnyCase(s, p) ==
    /\ Len(s) > Len(p)
    /\ LowerStr(SubSeq(s, 1, Len(p))) = LowerStr(p)
    /\ s[Len(p) + 1] \in Whitespace

StripPrefixAnyCase(v) ==
    IF v.t # "str" THEN v
    ELSE IF \E i \in 1..Len(PREFIXES) : HasPrefixAnyCase(v.s, PREFIXES[i])
    THEN LET p == PREFIXES[CHOOSE i \in 1..Len(PREFIXES) : HasPrefixAnyCase(v.s, PREFIXES[i])]
         IN  Str(LStrip(SubSeq(v.s, Len(p) + 1, Len(v.s))))
    ELSE v

StripPrefix(v) ==
    IF v.t # "str" THEN v
    ELSE IF \E i \in 1..Len(PREFIXES) : HasPrefix(v.s, PREFIXES[i])
    THEN LET p == PREFIXES[CHOOSE i \in 1..Len(PREFIXES) : HasPrefix(v.s, PREFIXES[i])]
         IN  Str(LStrip(SubSeq(v.s, Len(p) + 1, Len(v.s))))
    ELSE v

\* lines 36-40: exact-match replacement of known variants
AUGUSTA_VICTORIA ==
    <<"A", "u", "g", "u", "s", "t", "a", " ", "V", "i", "c", "t", "o", "r", "i", "a">>

KAISERIN == <<"K", "a", "i", "s", "e", "r", "i", "n", " ">>

ship_mapping(v) ==
    IF v.t = "str" /\ v.s = AUGUSTA_VICTORIA
    THEN Str(KAISERIN \o AUGUSTA_VICTORIA)
    ELSE v

NormalizeShips(df) ==
    IF "ShipName" \in df.cols
    THEN SetCol(df, "ShipName", LAMBDA r : ship_mapping(StripPrefix(r["ShipName"])))
    ELSE df

\* line 44: str.contains(" and ", case=False, na=False)
ContainsIgnoreCase(s, pat) ==
    \E i \in 1..Len(s) :
        /\ i + Len(pat) - 1 <= Len(s)
        /\ \A j \in 1..Len(pat) : Lower(s[i + j - 1]) = Lower(pat[j])

\* transit_indicator without case=False
transit_indicator_cased(v) ==
    IF v.t = "str" THEN Bool(Contains(v.s, AND_PAT)) ELSE Bool(FALSE)

transit_indicator(v) ==
    IF v.t = "str" THEN Bool(ContainsIgnoreCase(v.s, AND_PAT)) ELSE Bool(FALSE)

\* line 45: str.split(" and ").str[-1].str.strip()
last_port(v) ==
    IF v.t = "str" THEN Str(Strip(SplitLast(v.s, AND_PAT))) ELSE NaN

Departures(df) ==
    IF "DeparturePlace" \in df.cols
    THEN LET flagged == SetCol(df, "TransitIndicator",
                               LAMBDA r : transit_indicator(r["DeparturePlace"]))
         IN  SetCol(flagged, "DeparturePlace", LAMBDA r : last_port(r["DeparturePlace"]))
    ELSE df

\* line 50: pd.to_numeric(errors="coerce")
DIGITS == <<"0", "1", "2", "3", "4", "5", "6", "7", "8", "9">>

DigitVal(c) == (CHOOSE i \in 1..Len(DIGITS) : DIGITS[i] = c) - 1

IsDigit(c) == \E i \in 1..Len(DIGITS) : DIGITS[i] = c

RECURSIVE ParseInt(_)
ParseInt(s) ==
    IF s = <<>> THEN 0
    ELSE ParseInt(SubSeq(s, 1, Len(s) - 1)) * 10 + DigitVal(s[Len(s)])

to_numeric(v) ==
    CASE v.t = "num" -> v
      [] v.t = "str" /\ Strip(v.s) # <<>> /\ \A i \in 1..Len(Strip(v.s)) : IsDigit(Strip(v.s)[i])
            -> Num(ParseInt(Strip(v.s)))
      [] OTHER -> NaN

\* the difference with a missing operand counted as zero
MinusFillZero(a, b) ==
    Num((IF a.t = "num" THEN a.n ELSE 0) - (IF b.t = "num" THEN b.n ELSE 0))

\* line 51: the difference of two numeric columns; a missing operand gives
\* a missing result
Minus(a, b) == IF a.t = "num" /\ b.t = "num" THEN Num(a.n - b.n) ELSE NaN

\* lines 48-51; ArrivalYear absent from the frame is a KeyError
AgeRaises(df) == "BirthDate" \in df.cols /\ "ArrivalYear" \notin df.cols

DeriveAge(df) ==
    IF "BirthDate" \in df.cols
    THEN LET numeric == SetCol(df, "BirthDate", LAMBDA r : to_numeric(r["BirthDate"]))
         IN  SetCol(numeric, "AgeAtArrival",
                    LAMBDA r : Minus(r["ArrivalYear"], r["BirthDate"]))
    ELSE df

\* lines 55 and 66: the summaries index columns that must exist (KeyError)
SUMMARY_COLS == {"FirstName", "LastName", "BirthDate", "ArrivalYear", "AgeAtArrival"}

SummaryRaises(df) == "Bin" \notin df.cols \/ ~(SUMMARY_COLS \subseteq df.cols)

\* the whole pass over the frame read at line 5, up to the frame written at
\* line 69: [raised, df]
preprocess(raw) ==
    LET d0 == SortByArrival(ParseArrival(raw))
    IN  IF StrRaises(d0, "ShipName") THEN [raised |-> TRUE, df |-> d0]
        ELSE LET ships == NormalizeShips(d0)
             IN  IF StrRaises(ships, "DeparturePlace") THEN [raised |-> TRUE, df |-> ships]
                 ELSE LET d1 == Departures(ships)
                      IN  IF AgeRaises(d1) THEN [raised |-> TRUE, df |-> d1]
                          ELSE LET d2 == DeriveAge(d1)
                               IN  [raised |-> SummaryRaises(d2), df |-> d2]

----------------------------------------------------------------------------
(* CSV files.  A file is [exists, writer, df]: writer names the program    *)
(* that wrote the file ("external" for a file that none of the scripts     *)
(* wrote), df is the table read_csv gives for it.                          *)

RAW_FILE == "project-data-master.csv"

MASTER_CLEAN_FILE == "migration_master_clean.csv"

READY_FILE == "migration_analysis_ready.csv"

READY_CLEAN_FILE == "migration_analysis_ready_clean.csv"

FILES == {RAW_FILE, MASTER_CLEAN_FILE, READY_FILE, READY_CLEAN_FILE}

NoFrame == DataFrame({}, <<>>)

Absent == [exists |-> FALSE, writer |-> "none", df |-> NoFrame]

File(writer, df) == [exists |-> TRUE, writer |-> writer, df |-> df]

\* to_csv followed by read_csv, cell by cell: a Timestamp is written as
\* YYYY-MM-DD and read back as a string; NaT, NaN and the empty string are
\* all written as an empty field, which is read back as a missing value
IsoDate(v) ==
    <<NumTok(v.y, 4), SepTok("-"), NumTok(v.m, 2), SepTok("-"), NumTok(v.d, 2)>>

csv_cell(v) ==
    CASE v.t = "ts" -> RawDate(IsoDate(v))
      [] v.t = "str" /\ v.s = <<>> -> NaN
      [] v.t = "raw" /\ v.k = <<>> -> NaN
      [] OTHER -> v

to_csv(df) ==
    DataFrame(df.cols,
              [i \in 1..Len(df.rows) |-> [c \in df.cols |-> csv_cell(df.rows[i][c])]])

----------------------------------------------------------------------------
(* Code/migration-code-postprocessing.py *)

\* lines 17 and 20 group by columns that must exist (KeyError); line 32
\* subtracts without coercion, so a string operand is a TypeError; line 35
\* indexes the summary columns
PostRaises(df) ==
    \/ "Bin" \notin df.cols
    \/ "ArrivalYear" \notin df.cols
    \/ "BirthDate" \in df.cols /\
          \E i \in 1..Len(df.rows) :
              df.rows[i]["BirthDate"].t \notin {"num", "nan"}
              \/ df.rows[i]["ArrivalYear"].t \notin {"num", "nan"}
    \/ ~(SUMMARY_COLS \subseteq (df.cols \cup {"AgeAtArrival"}))

postprocess(clean) ==
    IF PostRaises(clean) THEN [raised |-> TRUE, df |-> clean]
    ELSE [raised |-> FALSE,
          df |-> SetCol(clean, "AgeAtArrival",
                        LAMBDA r : Minus(r["ArrivalYear"], r["BirthDate"]))]

----------------------------------------------------------------------------
(* The dashboard's load_data (streamlit.py 21-24, streamlit_app.py 55-58) *)

NoCache == [hit |-> FALSE, writer |-> "none", df |-> NoFrame]

\* st.cache_data: the first successful call reads the file and stores the
\* frame; a failed call (FileNotFoundError) stores nothing
load_data(files, c) ==
    IF c.hit THEN [raised |-> FALSE, cache |-> c]
    ELSE IF ~files[READY_CLEAN_FILE].exists THEN [raised |-> TRUE, cache |-> c]
    ELSE [raised |-> FALSE,
          cache |-> [hit |-> TRUE,
                     writer |-> files[READY_CLEAN_FILE].writer,
                     df |-> files[READY_CLEAN_FILE].df]]

----------------------------------------------------------------------------
(* Inputs of the cleaning pass *)

StudyStart == 1880

StudyEnd == 1914

\* days of the month tried in date inputs: 1..MaxLowDay and the month ends
MaxLowDay == 1

DaysTried == (1..MaxLowDay) \cup {10, 29, 31}

\* every date of the study period on the days tried, in each format, with
\* and without leading zeros
StudyDates ==
    {<<y, m, d>> \in (StudyStart..StudyEnd) \X (1..12) \X DaysTried : ValidDate(y, m, d)}

WrittenDates == {WriteDate(f, dt[1], dt[2], dt[3], pad) :
                    f \in 1..Len(FORMATS), dt \in StudyDates, pad \in BOOLEAN}

\* inputs parse_dates cannot read: a missing value, the empty string, a
\* word, an ISO date, a day-first numeric date, a date that does not exist,
\* a number
UnparseableDates ==
    { NaN,
      RawDate(<<>>),
      RawDate(<<WordTok>>),
      RawDate(<<NumTok(1901, 4), SepTok("-"), NumTok(3, 2), SepTok("-"), NumTok(5, 2)>>),
      RawDate(<<NumTok(31, 2), SepTok("/"), NumTok(12, 2), SepTok("/"), NumTok(1901, 4)>>),
      RawDate(<<NumTok(29, 2), SepTok(" "), MonTok(2), SepTok(" "), NumTok(1900, 4)>>),
      RawDate(<<NumTok(5, 2), SepTok(" "), MonTok(3), SepTok(" "), NumTok(1, 2)>>),
      RawDate(<<NumTok(5, 2), MonTok(3), NumTok(1901, 4)>>),
      Num(1901) }

\* "03/04/1901" and "03/04/01": numeric dates that read as a date both
\* month-first and day-first
AmbiguousDates ==
    {RawDate(WriteDate(f, 1901, 3, 4, TRUE)) : f \in {3, 4}}

DateInputs == {RawDate(k) : k \in WrittenDates} \cup UnparseableDates \cup AmbiguousDates

LIVERPOOL == <<"L", "i", "v", "e", "r", "p", "o", "o", "l">>

QUEENSTOWN == <<"Q", "u", "e", "e", "n", "s", "t", "o", "w", "n">>

PORTLAND == <<"P", "o", "r", "t", "l", "a", "n", "d">>

SOUTHAMPTON == <<"S", "o", "u", "t", "h", "a", "m", "p", "t", "o", "n">>

PIECES == {LIVERPOOL, QUEENSTOWN, PORTLAND, <<" ">>, AND_PAT,
           <<" ", "A", "N", "D", " ">>}

\* the longest departure string tried, in pieces
MaxPieces == 3

RECURSIVE Concats(_)
Concats(n) ==
    IF n = 0 THEN {<<>>}
    ELSE Concats(n - 1) \cup {p \o s : p \in PIECES, s \in Concats(n - 1)}

\* read_csv gives a missing value for an empty field
DepartureInputs == {Str(s) : s \in Concats(MaxPieces) \ {<<>>}} \cup {NaN}

TITANIC == <<"T", "i", "t", "a", "n", "i", "c">>

ShipInputs ==
    { Str(TITANIC), Str(<<"R", "M", "S", " ">> \o TITANIC), Str(AUGUSTA_VICTORIA),
      Str(<<"S", "S", " ">> \o AUGUSTA_VICTORIA), NaN,
      Str(<<"H", "M", "S", " ", " ">> \o TITANIC), Str(<<"r", "m", "s", " ">> \o TITANIC),
      Str(<<"S", "S">> \o TITANIC), Str(<<"S", "S", " ", "M", "V", " ">> \o TITANIC),
      Str(<<" ", "M", "V", " ">> \o TITANIC), Str(AUGUSTA_VICTORIA \o <<" ">>),
      Str(<<"M", "V", " ">>), Str(<<"M", "V">>) }

BirthInputs == { Num(1870), NaN, Str(<<"1", "8", "7", "0">>), Str(<<"c", "a">>) }

RAW_COLS == {"FirstName", "LastName", "BirthDate", "ArrivalDate", "Bin",
             "ShipName", "DeparturePlace"}

DefaultRow ==
    [c \in RAW_COLS |->
        CASE c = "FirstName" -> Str(<<"J">>)
          [] c = "LastName" -> Str(<<"D">>)
          [] c = "BirthDate" -> Num(1870)
          [] c = "ArrivalDate" -> RawDate(WriteDate(1, 1901, 3, 5, TRUE))
          [] c = "Bin" -> Num(5)
          [] c = "ShipName" -> Str(TITANIC)
          [] c = "DeparturePlace" -> Str(SOUTHAMPTON)]

With(row, col, v) == [c \in DOMAIN row |-> IF c = col THEN v ELSE row[c]]

Without(row, col) == [c \in (DOMAIN row) \ {col} |-> row[c]]

OneRow(row) == DataFrame(DOMAIN row, <<row>>)

DefaultTable == OneRow(DefaultRow)

EarlierRow == With(DefaultRow, "ArrivalDate", RawDate(WriteDate(3, 1885, 7, 4, FALSE)))

UndatedRow == With(DefaultRow, "ArrivalDate", NaN)

RawTables ==
    {OneRow(With(DefaultRow, "ArrivalDate", v)) : v \in DateInputs}
    \cup {OneRow(With(DefaultRow, "DeparturePlace", v)) : v \in DepartureInputs}
    \cup {OneRow(With(DefaultRow, "ShipName", v)) : v \in ShipInputs}
    \cup {OneRow(With(DefaultRow, "BirthDate", v)) : v \in BirthInputs}
    \cup {OneRow(Without(DefaultRow, c)) : c \in RAW_COLS}
    \cup {DataFrame(RAW_COLS, <<DefaultRow, EarlierRow>>),
          DataFrame(RAW_COLS, <<UndatedRow, DefaultRow, EarlierRow>>)}
    \cup {DataFrame(RAW_COLS, <<With(DefaultRow, c, NaN), DefaultRow>>) :
              c \in {"ShipName", "DeparturePlace"}}

\* a cleaned table that none of the scripts of this repository wrote
ExternalTable == to_csv(preprocess(OneRow(EarlierRow)).df)

ExternalFiles == {Absent, File("external", ExternalTable)}

----------------------------------------------------------------------------
(* The cleaning pass and the dashboard's load, as runs over the directory *)

NoCall == [called |-> FALSE, raised |-> FALSE, df |-> NoFrame]

IdleSample == np_random = 0 /\ gs_df = NoFrame /\ gs_n = 0 /\ gs_out = NoCall

NoProfiles == [done |-> FALSE, of |-> <<>>, heat |-> <<>>]

IdleProfile == km_df = NoFrame /\ profiles = NoProfiles

\* the filter has not run
NoSelection == [lo |-> 0, hi |-> 0, df |-> NoFrame]

IdleDash ==
    /\ rev = "none"
    /\ show_intro = <<>>
    /\ pc = <<>>
    /\ seed = <<>>
    /\ sampled_df = <<>>
    /\ kmodes = <<>>
    /\ temporal = <<>>
    /\ selection = <<>>

NoLayers == [done |-> FALSE, layers |-> <<>>]

IdleAside == letter_bins = <<>> /\ birthplaces = {} /\ annotated = NoLayers

NoRunYet ==
    /\ IdleAside
    /\ IdleSample
    /\ IdleProfile
    /\ IdleDash
    /\ pre_status = "not_run"
    /\ post_status = "not_run"
    /\ pre_df = NoFrame
    /\ cache = NoCache
    /\ load_status = "not_run"

\* the cleaning pass alone, over every input table tried
InitClean ==
    /\ \E raw \in RawTables :
          fs = [f \in FILES |-> IF f = RAW_FILE THEN File("external", raw) ELSE Absent]
    /\ NoRunYet

\* the directory before anything ran: the raw file, and possibly cleaned
\* files put there by hand
PipelineTables ==
    {OneRow(Without(DefaultRow, c)) : c \in RAW_COLS}
    \cup {OneRow(With(DefaultRow, "BirthDate", v)) : v \in BirthInputs}
    \cup {DataFrame(RAW_COLS, <<DefaultRow, EarlierRow>>),
          DataFrame(RAW_COLS, <<UndatedRow, DefaultRow, EarlierRow>>)}

InitPipeline ==
    /\ \E raw \in PipelineTables, m \in ExternalFiles, c \in ExternalFiles :
          fs = [f \in FILES |->
                  CASE f = RAW_FILE -> File("external", raw)
                    [] f = MASTER_CLEAN_FILE -> m
                    [] f = READY_CLEAN_FILE -> c
                    [] OTHER -> Absent]
    /\ NoRunYet

\* a preprocessing script that saves over the file it read:
\* df.to_csv(file_path, index=False)
pre_output_in_place == RAW_FILE

\* the file each cleaning script saves to: df.to_csv(
\* "migration_analysis_ready.csv", index=False) in both
pre_output == READY_FILE

post_output == READY_FILE

\* python migration-code-preprocessing.py
RunPreprocessing ==
    /\ UNCHANGED <<post_status, cache, load_status, varsSample, varsProfile, varsDash, varsAside>>
    /\ IF ~fs[RAW_FILE].exists
       THEN /\ pre_status' = "raised"
            /\ UNCHANGED <<fs, pre_df>>
       ELSE LET r == preprocess(fs[RAW_FILE].df)
            IN  /\ pre_df' = r.df
                /\ IF r.raised
                   THEN /\ pre_status' = "raised"
                        /\ UNCHANGED fs
                   ELSE /\ pre_status' = "ok"
                        /\ fs' = [fs EXCEPT ![pre_output] =
                                     File("preprocessing", to_csv(r.df))]

\* python migration-code-postprocessing.py
RunPostprocessing ==
    /\ UNCHANGED <<pre_status, pre_df, cache, load_status, varsSample, varsProfile, varsDash, varsAside>>
    /\ IF ~fs[MASTER_CLEAN_FILE].exists
       THEN /\ post_status' = "raised"
            /\ UNCHANGED fs
       ELSE LET r == postprocess(fs[MASTER_CLEAN_FILE].df)
            IN  IF r.raised
                THEN /\ post_status' = "raised"
                     /\ UNCHANGED fs
                ELSE /\ post_status' = "ok"
                     /\ fs' = [fs EXCEPT ![post_output] =
                                  File("postprocessing", to_csv(r.df))]

\* a dashboard run reaching df = load_data()
LoadData ==
    /\ UNCHANGED <<fs, pre_status, post_status, pre_df, varsSample, varsProfile, varsDash, varsAside>>
    /\ LET r == load_data(fs, cache)
       IN  /\ cache' = r.cache
           /\ load_status' = IF r.raised THEN "raised" ELSE "ok"

NextPipeline == RunPreprocessing \/ RunPostprocessing \/ LoadData

SpecPipeline == InitPipeline /\ [][NextPipeline]_vars

NextClean == RunPreprocessing

SpecClean == InitClean /\ [][NextClean]_vars

----------------------------------------------------------------------------
(* get_sample (streamlit.py 56-65, streamlit_app.py 138-161)               *)

\* numpy's global generator: its state is one of 0..RngStates-1.  Seeding
\* sets the state from the seed; every draw advances it.
RngStates == 6

seed_state(value) == value % RngStates

next_state(st) == (st * 5 + 1) % RngStates

RemoveAt(seq, i) == SubSeq(seq, 1, i - 1) \o SubSeq(seq, i + 1, Len(seq))

\* the permutation of seq that generator state st produces
RECURSIVE Permutation(_, _)
Permutation(seq, st) ==
    IF seq = <<>> THEN <<>>
    ELSE LET i == (st % Len(seq)) + 1
         IN  <<seq[i]>> \o Permutation(RemoveAt(seq, i), st \div Len(seq) + st)

\* group.sample drawing with replacement: n independent picks
sample_replace(group, n, st) == [i \in 1..n |-> group[((st * i) % Len(group)) + 1]]

\* group.sample(n=n, replace=False) with random_state=None: the first n
\* rows of a permutation drawn from the global generator
sample(group, n, st) == SubSeq(Permutation(group, st), 1, n)

\* the keys of df.groupby("Bin"), ascending; rows whose Bin is missing
\* belong to no group
BinKeys(df) == {df.rows[i]["Bin"].n : i \in {j \in 1..Len(df.rows) : ~isna(df.rows[j]["Bin"])}}

RECURSIVE SelectRows(_, _)
SelectRows(rows, b) ==
    IF rows = <<>> THEN <<>>
    ELSE IF Head(rows)["Bin"] = Num(b)
         THEN <<Head(rows)>> \o SelectRows(Tail(rows), b)
         ELSE SelectRows(Tail(rows), b)

Min(S) == CHOOSE x \in S : \A y \in S : x <= y

\* the for loop of get_sample over the groups in key order:
\* [rows |-> the concatenated groups, st |-> the generator state after]
RECURSIVE SampleGroups(_, _, _, _)
SampleGroups(rows, keys, n, st) ==
    IF keys = {} THEN [rows |-> <<>>, st |-> st]
    ELSE LET b == Min(keys)
             group == SelectRows(rows, b)
             drawn == Len(group) >= n
             rest == SampleGroups(rows, keys \ {b}, n, IF drawn THEN next_state(st) ELSE st)
         IN  [rows |-> (IF drawn THEN sample(group, n, st) ELSE group) \o rest.rows,
              st |-> rest.st]

\* get_sample drawing from the whole table instead of from each bin
get_sample_across(df, sample_per_bin, st) ==
    IF "Bin" \notin df.cols \/ BinKeys(df) = {}
    THEN [raised |-> TRUE, df |-> NoFrame, st |-> st]
    ELSE LET rows == SelectSeq(df.rows, LAMBDA r : ~isna(r["Bin"]))
             n == sample_per_bin * Cardinality(BinKeys(df))
         IN  [raised |-> FALSE,
              df |-> DataFrame(df.cols,
                               IF Len(rows) >= n THEN sample(rows, n, st) ELSE rows),
              st |-> next_state(st)]

\* get_sample(df, sample_per_bin) under generator state st:
\* [raised, df, st].  pd.concat of no groups is a ValueError; a missing Bin
\* column is a KeyError.
get_sample(df, sample_per_bin, st) ==
    IF "Bin" \notin df.cols \/ BinKeys(df) = {}
    THEN [raised |-> TRUE, df |-> NoFrame, st |-> st]
    ELSE LET r == SampleGroups(df.rows, BinKeys(df), sample_per_bin, st)
         IN  [raised |-> FALSE, df |-> DataFrame(df.cols, r.rows), st |-> r.st]

\* a get_sample that ends by storing its result in the caller's table
df_after_stored(df, sample_per_bin, st) ==
    LET r == get_sample(df, sample_per_bin, st) IN IF r.raised THEN df ELSE r.df

\* the caller's table after get_sample(df, sample_per_bin): groupby,
\* group.sample, pd.concat and reset_index (inplace left False) each build
\* a new object, and nothing is assigned into df
df_after(df, sample_per_bin, st) == df

\* tables tried: up to MaxRows rows, each in bin 1 or 2 or with no bin,
\* told apart by their LastName
MaxRows == 4

MaxCap == 3

NAMES == <<"a", "b", "c", "d", "e", "f", "g", "h">>

BinValues == {Num(1), Num(2), NaN}

SampleTable(bins) ==
    DataFrame({"Bin", "LastName"},
              [i \in DOMAIN bins |-> [c \in {"Bin", "LastName"} |->
                                         IF c = "Bin" THEN bins[i] ELSE Str(<<NAMES[i]>>)]])

SampleTables ==
    {SampleTable(bins) : bins \in UNION {[1..m -> BinValues] : m \in 0..MaxRows}}

InitSample ==
    /\ IdleAside
    /\ gs_df \in SampleTables
    /\ gs_n \in 1..MaxCap
    /\ np_random \in 0..(RngStates - 1)
    /\ gs_out = NoCall
    /\ IdleProfile
    /\ IdleDash
    /\ fs = [f \in FILES |-> Absent]
    /\ pre_status = "not_run"
    /\ post_status = "not_run"
    /\ pre_df = NoFrame
    /\ cache = NoCache
    /\ load_status = "not_run"

\* sampled_df = get_sample(df, sample_per_bin=n)
GetSample ==
    /\ ~gs_out.called
    /\ LET r == get_sample(gs_df, gs_n, np_random)
       IN  /\ gs_out' = [called |-> TRUE, raised |-> r.raised, df |-> r.df]
           /\ np_random' = r.st
    /\ gs_df' = df_after(gs_df, gs_n, np_random)
    /\ UNCHANGED <<gs_n, varsPipe, varsProfile, varsDash, varsAside>>

NextSample == GetSample

SpecSample == InitSample /\ [][NextSample]_vars

----------------------------------------------------------------------------
(* Cluster profiles (streamlit.py 462-466, streamlit_app.py 900-907)       *)

\* Python orders strings by code point: space, digits, upper case, lower
\* case, then the arrow of RouteCode
CODE_ORDER == <<" ">> \o DIGITS \o UPPER \o LOWER \o <<"->">>

Ord(c) == CHOOSE i \in 1..Len(CODE_ORDER) : CODE_ORDER[i] = c

RECURSIVE LexLess(_, _)
LexLess(a, b) ==
    IF b = <<>> THEN FALSE
    ELSE IF a = <<>> THEN TRUE
    ELSE IF Head(a) = Head(b) THEN LexLess(Tail(a), Tail(b))
    ELSE Ord(Head(a)) < Ord(Head(b))

CAT_COLS == {"RouteCode", "Season", "AgeCategory", "Gender"}

\* df.loc[df["Cluster"] == cluster, col]: the values of col in the rows of
\* the cluster, in row order
RECURSIVE ClusterValues(_, _, _)
ClusterValues(rows, cluster, col) ==
    IF rows = <<>> THEN <<>>
    ELSE IF Head(rows)["Cluster"] = Num(cluster)
         THEN <<Head(rows)[col]>> \o ClusterValues(Tail(rows), cluster, col)
         ELSE ClusterValues(Tail(rows), cluster, col)

Occurrences(vals, v) == Cardinality({i \in 1..Len(vals) : vals[i] = v})

\* the values that occur most often
Modes(vals) ==
    {vals[i] : i \in {j \in 1..Len(vals) :
                        \A k \in 1..Len(vals) :
                            Occurrences(vals, vals[k]) <= Occurrences(vals, vals[j])}}

\* the mode that occurs first in row order
mode0_first(vals) ==
    vals[Min({i \in 1..Len(vals) : vals[i] \in Modes(vals)})]

\* Series.mode()[0]: mode() gives the most frequent values sorted
\* ascending; [0] is the smallest of them
mode0(vals) ==
    CHOOSE v \in Modes(vals) : \A w \in Modes(vals) : w = v \/ LexLess(v.s, w.s)

ClustersOf(df) == {df.rows[i]["Cluster"].n : i \in 1..Len(df.rows)}

\* the loop over sorted(df_km_rel["Cluster"].unique())
cluster_profiles(df) ==
    [cluster \in ClustersOf(df) |->
        [col \in CAT_COLS |-> mode0(ClusterValues(df.rows, cluster, col))]]

\* cat_cols_rel in the order of its list, which is the order of the keys
\* of each profile
cat_cols_rel == <<"RouteCode", "Season", "AgeCategory", "Gender">>

\* every value of x_col paired with every cluster, whether or not a row
\* has the pair
group_keys_product(df, x_col) ==
    {<<df.rows[i][x_col], c>> : i \in 1..Len(df.rows), c \in ClustersOf(df)}

\* the groups of df.groupby([x_col, "Cluster"]): the pairs that occur
group_keys(df, x_col) ==
    {<<df.rows[i][x_col], df.rows[i]["Cluster"].n>> : i \in 1..Len(df.rows)}

\* groupby sorts its keys: by value, then by cluster
KeyLess(a, b) == LexLess(a[1].s, b[1].s) \/ (a[1] = b[1] /\ a[2] < b[2])

RECURSIVE SortedKeys(_)
SortedKeys(keys) ==
    IF keys = {} THEN <<>>
    ELSE LET first == CHOOSE a \in keys : \A b \in keys : a = b \/ KeyLess(a, b)
         IN  <<first>> \o SortedKeys(keys \ {first})

\* every feature of the profile, the chosen column included
all_features(profile, x_col) ==
    [i \in 1..Len(cat_cols_rel) |-> <<cat_cols_rel[i], profile[cat_cols_rel[i]]>>]

\* [f"{k}: {v}" for k, v in profile.items() if k != x_col]: the pairs the
\* Profile string lists, in order
other_features(profile, x_col) ==
    SelectSeq([i \in 1..Len(cat_cols_rel) |-> <<cat_cols_rel[i], profile[cat_cols_rel[i]]>>],
              LAMBDA kv : kv[1] # x_col)

\* heat_data of plot_heatmap_with_profile: one row for each group, with its
\* size and the Profile of its cluster
plot_heatmap_with_profile(df, x_col, profiles_of) ==
    LET keys == SortedKeys(group_keys(df, x_col))
    IN  [i \in 1..Len(keys) |->
            [value |-> keys[i][1],
             Cluster |-> keys[i][2],
             Count |-> Cardinality({j \in 1..Len(df.rows) :
                                      /\ df.rows[j][x_col] = keys[i][1]
                                      /\ df.rows[j]["Cluster"] = Num(keys[i][2])}),
             Profile |-> other_features(profiles_of[keys[i][2]], x_col)]]

\* clustered tables tried: up to MaxClustered rows, two seasons, two
\* genders, clusters 0 and 1
MaxClustered == 3

WINTER == <<"W", "i", "n", "t", "e", "r">>

SPRING == <<"S", "p", "r", "i", "n", "g">>

SUMMER == <<"S", "u", "m", "m", "e", "r">>

FALL == <<"F", "a", "l", "l">>

UNKNOWN == <<"U", "n", "k", "n", "o", "w", "n">>

MALE == <<"M", "a", "l", "e">>

FEMALE == <<"F", "e", "m", "a", "l", "e">>

CHILD == <<"C", "h", "i", "l", "d">>

YOUNG_ADULT == <<"Y", "o", "u", "n", "g", "A", "d", "u", "l", "t">>

ADULT == <<"A", "d", "u", "l", "t">>

SENIOR == <<"S", "e", "n", "i", "o", "r">>

ENGLAND == <<"E", "n", "g", "l", "a", "n", "d">>

ARROW == <<" ", "->", " ">>

ClusteredRow(season, gender, cluster) ==
    [c \in CAT_COLS \cup {"Cluster"} |->
        CASE c = "RouteCode" -> Str(ENGLAND \o ARROW \o LIVERPOOL)
          [] c = "Season" -> Str(season)
          [] c = "AgeCategory" -> Str(ADULT)
          [] c = "Gender" -> Str(gender)
          [] c = "Cluster" -> Num(cluster)]

ClusteredRows ==
    {ClusteredRow(s, g, k) : s \in {WINTER, FALL}, g \in {MALE, FEMALE}, k \in {0, 1}}

ClusteredTables ==
    {DataFrame(CAT_COLS \cup {"Cluster"}, rows) :
        rows \in UNION {[1..m -> ClusteredRows] : m \in 1..MaxClustered}}

InitProfile ==
    /\ IdleAside
    /\ km_df \in ClusteredTables
    /\ profiles = NoProfiles
    /\ IdleSample
    /\ IdleDash
    /\ fs = [f \in FILES |-> Absent]
    /\ pre_status = "not_run"
    /\ post_status = "not_run"
    /\ pre_df = NoFrame
    /\ cache = NoCache
    /\ load_status = "not_run"

\* the profiles, then the four heatmaps drawn from them
ComputeProfiles ==
    /\ ~profiles.done
    /\ profiles' = [done |-> TRUE, of |-> cluster_profiles(km_df),
                    heat |-> [x_col \in CAT_COLS |->
                                 plot_heatmap_with_profile(km_df, x_col,
                                                           cluster_profiles(km_df))]]
    /\ UNCHANGED <<km_df, varsPipe, varsSample, varsDash, varsAside>>

NextProfile == ComputeProfiles

SpecProfile == InitProfile /\ [][NextProfile]_vars

----------------------------------------------------------------------------
(* The clustering tab (streamlit.py 406-466, streamlit_app.py 807-907)     *)

\* astype(str): a missing value becomes the string "nan"
astype_str(v) == IF v.t = "str" THEN v.s ELSE <<"n", "a", "n">>

\* BirthPlace.astype(str) + " -> " + DeparturePlace.astype(str)
RouteCode(row) ==
    Str(astype_str(row["BirthPlace"]) \o ARROW \o astype_str(row["DeparturePlace"]))

DECEMBER == <<"D", "e", "c", "e", "m", "b", "e", "r">>

JANUARY == <<"J", "a", "n", "u", "a", "r", "y">>

FEBRUARY == <<"F", "e", "b", "r", "u", "a", "r", "y">>

MARCH == <<"M", "a", "r", "c", "h">>

APRIL == <<"A", "p", "r", "i", "l">>

MAY == <<"M", "a", "y">>

JUNE == <<"J", "u", "n", "e">>

JULY == <<"J", "u", "l", "y">>

AUGUST == <<"A", "u", "g", "u", "s", "t">>

SEPTEMBER == <<"S", "e", "p", "t", "e", "m", "b", "e", "r">>

OCTOBER == <<"O", "c", "t", "o", "b", "e", "r">>

NOVEMBER == <<"N", "o", "v", "e", "m", "b", "e", "r">>

\* the seasons taken as the quarters of the calendar year
get_season_quarters(month_name) ==
    IF month_name \in {Str(JANUARY), Str(FEBRUARY), Str(MARCH)} THEN Str(WINTER)
    ELSE IF month_name \in {Str(APRIL), Str(MAY), Str(JUNE)} THEN Str(SPRING)
    ELSE IF month_name \in {Str(JULY), Str(AUGUST), Str(SEPTEMBER)} THEN Str(SUMMER)
    ELSE IF month_name \in {Str(OCTOBER), Str(NOVEMBER), Str(DECEMBER)} THEN Str(FALL)
    ELSE Str(UNKNOWN)

get_season(month_name) ==
    IF month_name \in {Str(DECEMBER), Str(JANUARY), Str(FEBRUARY)} THEN Str(WINTER)
    ELSE IF month_name \in {Str(MARCH), Str(APRIL), Str(MAY)} THEN Str(SPRING)
    ELSE IF month_name \in {Str(JUNE), Str(JULY), Str(AUGUST)} THEN Str(SUMMER)
    ELSE IF month_name \in {Str(SEPTEMBER), Str(OCTOBER), Str(NOVEMBER)} THEN Str(FALL)
    ELSE Str(UNKNOWN)

\* the comparison with the bound itself let through
AtMost(age, bound) == age.t = "num" /\ age.n <= bound

\* a comparison with NaN is False, so a missing age falls through to the
\* else branch
LessThan(age, bound) == age.t = "num" /\ age.n < bound

get_age_cat(age) ==
    IF LessThan(age, 15) THEN Str(CHILD)
    ELSE IF LessThan(age, 24) THEN Str(YOUNG_ADULT)
    ELSE IF LessThan(age, 55) THEN Str(ADULT)
    ELSE Str(SENIOR)

SOURCE_COLS == {"BirthPlace", "DeparturePlace", "ArrivalMonth", "AgeAtArrival"}

\* df_rel with RouteCode, Season and AgeCategory derived
derive(df) ==
    SetCol(SetCol(SetCol(df, "RouteCode", RouteCode),
                  "Season", LAMBDA r : get_season(r["ArrivalMonth"])),
           "AgeCategory", LAMBDA r : get_age_cat(r["AgeAtArrival"]))

HasNull(row, cols) == \E c \in cols : isna(row[c])

RECURSIVE DropNull(_, _)
DropNull(rows, cols) ==
    IF rows = <<>> THEN <<>>
    ELSE IF HasNull(Head(rows), cols) THEN DropNull(Tail(rows), cols)
    ELSE <<Head(rows)>> \o DropNull(Tail(rows), cols)

\* null_summary = df_rel[cat_cols_rel].isna().sum(), as st.write shows it
null_summary(df) ==
    [c \in CAT_COLS |-> Cardinality({i \in 1..Len(df.rows) : isna(df.rows[i][c])})]

\* KModes(n_clusters=k, init=init, n_init=5, random_state=...).fit_predict:
\* the library is not part of the repository.  It draws only from the
\* generator its random_state argument names: with init "Huang" the
\* initial modes are k rows drawn at random, with "Cao" they are chosen
\* without a draw (here the first k rows); each row takes the label of the
\* nearest mode, by the number of features that differ.
Mismatch(a, b) == Cardinality({c \in CAT_COLS : a[c] # b[c]})

INIT_METHODS == {"Huang", "Cao"}

fit_predict(rows, k, init, st) ==
    LET modes == IF init = "Huang" THEN SubSeq(Permutation(rows, st), 1, k)
                 ELSE SubSeq(rows, 1, k)
    IN  [i \in 1..Len(rows) |->
            (CHOOSE j \in 1..k :
                /\ \A l \in 1..k : Mismatch(rows[i], modes[j]) <= Mismatch(rows[i], modes[l])
                /\ \A l \in 1..(j - 1) : Mismatch(rows[i], modes[l]) > Mismatch(rows[i], modes[j]))
            - 1]

\* random_state=None: KModes draws from numpy's global generator
random_state_global == np_random

\* random_state=42: KModes draws from a generator of its own, seeded anew
\* at every call
random_state == seed_state(42)

NoClustering ==
    [status |-> "none", k |-> 0, init |-> "none", df_rel |-> <<>>, entered |-> <<>>,
     named |-> {}, labels |-> <<>>, of |-> <<>>]

\* the clustering tab over the frame it copies (sampled_df in streamlit.py,
\* selected_df in streamlit_app.py) with k clusters and the chosen
\* initialization method
clustering_tab(script, df, k, init) ==
    IF ~(SOURCE_COLS \subseteq df.cols)
    THEN [NoClustering EXCEPT !.status = "raised", !.k = k, !.init = init]
    ELSE LET df_rel == derive(df)
             missing_cols == CAT_COLS \ df_rel.cols
             checked == script = "streamlit_app.py"
             nulls == IF missing_cols = {} THEN null_summary(df_rel)
                      ELSE [c \in CAT_COLS |-> 0]
             entered == IF checked THEN df_rel.rows ELSE DropNull(df_rel.rows, CAT_COLS)
         IN  IF ~checked /\ missing_cols # {}
             THEN [NoClustering EXCEPT !.status = "raised", !.k = k, !.init = init,
                                       !.df_rel = df_rel.rows]
             ELSE IF checked /\ missing_cols # {}
             THEN [NoClustering EXCEPT !.status = "skipped", !.k = k, !.init = init,
                                       !.df_rel = df_rel.rows, !.named = missing_cols]
             ELSE IF checked /\ \E c \in CAT_COLS : nulls[c] > 0
             THEN [NoClustering EXCEPT !.status = "skipped", !.k = k, !.init = init,
                                       !.df_rel = df_rel.rows,
                                       !.named = {c \in CAT_COLS : nulls[c] > 0}]
             ELSE IF Len(entered) < k
             THEN [NoClustering EXCEPT !.status = "raised", !.k = k, !.init = init,
                                       !.df_rel = df_rel.rows]
             ELSE LET labels == fit_predict(entered, k, init, random_state)
                      km == DataFrame(CAT_COLS \cup {"Cluster"},
                                [i \in 1..Len(entered) |->
                                    [c \in CAT_COLS \cup {"Cluster"} |->
                                        IF c = "Cluster" THEN Num(labels[i])
                                        ELSE Str(astype_str(entered[i][c]))]])
                  IN  [status |-> "ran", k |-> k, init |-> init, df_rel |-> df_rel.rows,
                       entered |-> entered, named |-> {}, labels |-> labels,
                       of |-> cluster_profiles(km)]

----------------------------------------------------------------------------
(* The dashboard script, run per session (streamlit.py, streamlit_app.py)  *)

NSessions == 2

Sessions == 1..NSessions

DEFAULT_SEED == 42

MaxSeed == 1

Seeds == {DEFAULT_SEED} \cup (1..MaxSeed)

\* sample_per_bin of the call at streamlit.py 149 / streamlit_app.py 263;
\* the scripts pass 60, scaled here to the size of the tables tried
SamplePerBin == 3

MIN_RECORDS == 3

MaxK == 2

SCRIPTS == {"streamlit.py", "streamlit_app.py"}

\* the rows whose ArrivalYear lies in the year range, ends included
in_years(df, lo, hi) ==
    DataFrame(df.cols,
        SelectSeq(df.rows,
            LAMBDA r : r["ArrivalYear"].t = "num"
                       /\ r["ArrivalYear"].n >= lo /\ r["ArrivalYear"].n <= hi))

\* value_counts() of BirthPlace, kept where at least MIN_RECORDS rows
\* (streamlit_app.py 296-302 and 332-333, streamlit.py 329-335)
valid_birthplaces(df) ==
    {bp \in {df.rows[i]["BirthPlace"] : i \in 1..Len(df.rows)} :
        /\ ~isna(bp)
        /\ Cardinality({i \in 1..Len(df.rows) : df.rows[i]["BirthPlace"] = bp}) >= MIN_RECORDS}

\* the filter keeping the birthplaces the sidebar offers, those with
\* MIN_RECORDS rows in the whole sample
selected_by_sample_counts(df, lo, hi) ==
    LET in_range == in_years(df, lo, hi)
    IN  DataFrame(df.cols,
           SelectSeq(in_range.rows, LAMBDA r : r["BirthPlace"] \in valid_birthplaces(df)))

\* streamlit_app.py 324-334: the year range (inclusive), then birthplaces
\* with fewer than MIN_RECORDS rows removed
selected(df, lo, hi) ==
    LET in_range == in_years(df, lo, hi)
    IN  DataFrame(df.cols,
           SelectSeq(in_range.rows,
               LAMBDA r : r["BirthPlace"] \in valid_birthplaces(in_range)))

\* the temporal tab over the frame it groups, with the birthplaces chosen
\* in the multiselect: the groups of (ArrivalYear, BirthPlace), missing
\* keys left out, filtered to the chosen birthplaces
temporal_tab(df, selected_birthplaces) ==
    LET df_grouped == {<<df.rows[i]["ArrivalYear"], df.rows[i]["BirthPlace"]>> :
                          i \in {j \in 1..Len(df.rows) :
                                    /\ ~isna(df.rows[j]["ArrivalYear"])
                                    /\ ~isna(df.rows[j]["BirthPlace"])}}
        filtered == {g \in df_grouped : g[2] \in selected_birthplaces}
    IN  IF filtered = {} THEN "warning" ELSE "chart"

YearsOf(df) ==
    {df.rows[i]["ArrivalYear"].n : i \in {j \in 1..Len(df.rows) : df.rows[j]["ArrivalYear"].t = "num"}}

Max(S) == CHOOSE x \in S : \A y \in S : x >= y

\* the cleaned tables tried: four England rows in bin 5, two arrivals a
\* year, told apart by LastName, the first with one field possibly missing
DASH_COLS == {"Bin", "ArrivalYear", "BirthPlace", "DeparturePlace", "ArrivalMonth",
              "AgeAtArrival", "Gender", "LastName"}

DashRow(i) ==
    [c \in DASH_COLS |->
        CASE c = "Bin" -> Num(5)
          [] c = "ArrivalYear" -> Num(1900 + (i + 1) \div 2)
          [] c = "BirthPlace" -> Str(ENGLAND)
          [] c = "DeparturePlace" -> Str(LIVERPOOL)
          [] c = "ArrivalMonth" -> Str(IF i % 2 = 0 THEN JULY ELSE JANUARY)
          [] c = "AgeAtArrival" -> Num(10 * i)
          [] c = "Gender" -> Str(IF i < 3 THEN MALE ELSE FEMALE)
          [] c = "LastName" -> Str(<<NAMES[i]>>)]

DropCol(df, col) ==
    DataFrame(df.cols \ {col}, [i \in 1..Len(df.rows) |-> Without(df.rows[i], col)])

\* the whole table, the table with one field of the first row missing, and
\* the table with one column absent
DashTables ==
    {DataFrame(DASH_COLS, <<r1, DashRow(2), DashRow(3), DashRow(4)>>) :
        r1 \in {DashRow(1)} \cup {With(DashRow(1), c, NaN) : c \in SOURCE_COLS \cup {"Gender"}}}
    \cup {DropCol(DataFrame(DASH_COLS, <<DashRow(1), DashRow(2), DashRow(3), DashRow(4)>>), c) :
              c \in SOURCE_COLS \cup {"Gender"}}

Init ==
    /\ IdleAside
    /\ rev \in SCRIPTS
    /\ \E t \in DashTables :
          fs = [f \in FILES |-> IF f = READY_CLEAN_FILE THEN File("external", t) ELSE Absent]
    /\ np_random \in 0..(RngStates - 1)
    /\ show_intro = [s \in Sessions |-> TRUE]
    /\ pc = [s \in Sessions |-> "idle"]
    /\ seed = [s \in Sessions |-> DEFAULT_SEED]
    /\ sampled_df = [s \in Sessions |-> NoFrame]
    /\ kmodes = [s \in Sessions |-> NoClustering]
    /\ temporal = [s \in Sessions |-> "none"]
    /\ selection = [s \in Sessions |-> NoSelection]
    /\ cache = NoCache
    /\ load_status = "not_run"
    /\ pre_status = "not_run"
    /\ post_status = "not_run"
    /\ pre_df = NoFrame
    /\ gs_df = NoFrame /\ gs_n = 0 /\ gs_out = NoCall
    /\ IdleProfile

UnchangedOutside == UNCHANGED <<fs, pre_status, post_status, pre_df, gs_df, gs_n, gs_out,
                                varsProfile, rev, varsAside>>

\* a landing page without its st.stop(): the run goes on below it
stops_never(intro) == FALSE

\* the landing page gate: if st.session_state.show_intro: ... st.stop()
stops_at_landing(intro) == intro

\* where a script run stands after the gate
after_gate(intro) == IF stops_at_landing(intro) THEN "idle" ELSE "load"

\* the script reruns while the landing page is shown (the page is reloaded
\* in the same session, or the server reruns it)
LandingRun(s) ==
    /\ pc[s] = "idle"
    /\ show_intro[s]
    /\ pc' = [pc EXCEPT ![s] = after_gate(show_intro[s])]
    /\ UNCHANGED <<show_intro, seed, sampled_df, kmodes, temporal, selection, np_random,
                   cache, load_status>>
    /\ UnchangedOutside

\* the Begin Analysis button: begin_analysis(), then the script reruns
BeginAnalysis(s) ==
    /\ pc[s] = "idle"
    /\ show_intro[s]
    /\ show_intro' = [show_intro EXCEPT ![s] = FALSE]
    /\ pc' = [pc EXCEPT ![s] = after_gate(FALSE)]
    /\ UNCHANGED <<seed, sampled_df, kmodes, temporal, selection, np_random, cache, load_status>>
    /\ UnchangedOutside

\* a widget of the analysis page is changed and the script reruns; in
\* streamlit_app.py the widget may be the Random Seed input
Rerun(s) ==
    /\ pc[s] = "idle"
    /\ ~show_intro[s]
    /\ \E v \in Seeds :
          /\ rev = "streamlit.py" => v = seed[s]
          /\ seed' = [seed EXCEPT ![s] = v]
    /\ pc' = [pc EXCEPT ![s] = after_gate(show_intro[s])]
    /\ UNCHANGED <<show_intro, sampled_df, kmodes, temporal, selection, np_random, cache, load_status>>
    /\ UnchangedOutside

\* bin_labels: the five-year span each bin number stands for
bin_labels ==
    << <<"1","8","8","0","-","1","8","8","4">>, <<"1","8","8","5","-","1","8","8","9">>,
       <<"1","8","9","0","-","1","8","9","4">>, <<"1","8","9","5","-","1","8","9","9">>,
       <<"1","9","0","0","-","1","9","0","4">>, <<"1","9","0","5","-","1","9","0","9">>,
       <<"1","9","1","0","-","1","9","1","4">> >>

\* Series.map(bin_labels) on one row: a key that is not in the dictionary
\* maps to a missing value
map_bin_labels(row) ==
    IF row["Bin"].t = "num" /\ row["Bin"].n \in DOMAIN bin_labels
    THEN Str(bin_labels[row["Bin"].n])
    ELSE NaN

\* df["BinLabel"] = df["Bin"].map(bin_labels) on the table the run holds; a
\* table with no Bin column is left as it is, and get_sample then raises
\* the KeyError for it
assign_BinLabel(df) ==
    IF "Bin" \in df.cols THEN SetCol(df, "BinLabel", map_bin_labels) ELSE df

\* a cache whose callers all hold the stored table itself: what a run
\* writes into its table is written into the entry
cache_shared(entry, df) == IF entry.hit THEN [entry EXCEPT !.df = df] ELSE entry

\* @st.cache_data: load_data hands every caller a copy of the stored table,
\* so the entry after the run has changed its table to df is the entry as
\* it was
cache_data(entry, df) == entry

\* df = load_data(); df["BinLabel"] = ...; sampled_df = get_sample(df, 60)
\* (streamlit.py 145-149, streamlit_app.py 260-263).  An exception ends
\* the run.
LoadAndSample(s) ==
    /\ pc[s] = "load"
    /\ LET l == load_data(fs, cache)
           df == assign_BinLabel(l.cache.df)
           r == get_sample(df, SamplePerBin, np_random)
       IN  /\ cache' = cache_data(l.cache, df)
           /\ load_status' = IF l.raised THEN "raised" ELSE "ok"
           /\ IF l.raised \/ r.raised
              THEN /\ pc' = [pc EXCEPT ![s] = "idle"]
                   /\ sampled_df' = [sampled_df EXCEPT ![s] = NoFrame]
                   /\ kmodes' = [kmodes EXCEPT ![s] = NoClustering]
                   /\ temporal' = [temporal EXCEPT ![s] = "none"]
                   /\ UNCHANGED np_random
              ELSE /\ pc' = [pc EXCEPT ![s] = "sidebar"]
                   /\ sampled_df' = [sampled_df EXCEPT ![s] = r.df]
                   /\ np_random' = r.st
                   /\ UNCHANGED <<kmodes, temporal>>
    /\ UNCHANGED <<show_intro, seed, selection>>
    /\ UnchangedOutside

\* an unhandled exception before the clustering tab is reached ends the
\* run.  streamlit_app.py: the sidebar reads ArrivalYear (286-287, int() of
\* the minimum of no year raises) and BirthPlace (297); streamlit.py: the
\* temporal tab, when ArrivalYear is a column (322), reads BirthPlace (330)
\* and takes int() of the least year (342).
RaisesBeforeClustering(script, df) ==
    IF script = "streamlit_app.py"
    THEN \/ "ArrivalYear" \notin df.cols
         \/ YearsOf(df) = {}
         \/ "BirthPlace" \notin df.cols
    ELSE /\ "ArrivalYear" \in df.cols
         /\ \/ "BirthPlace" \notin df.cols
            \/ YearsOf(df) = {}

\* the rest of the run: the sidebar (streamlit_app.py 270-313, which seeds
\* the global generators), the filter (324-334) and the tabs, of which the
\* clustering tab computes; the initialization method is left at "Huang",
\* the default of its selectbox
Render(s) ==
    /\ pc[s] = "sidebar"
    /\ np_random' = IF rev = "streamlit_app.py" THEN seed_state(seed[s]) ELSE np_random
    /\ IF RaisesBeforeClustering(rev, sampled_df[s])
       THEN /\ kmodes' = [kmodes EXCEPT ![s] = [NoClustering EXCEPT !.status = "raised"]]
            /\ temporal' = [temporal EXCEPT ![s] =
                               IF rev = "streamlit.py" THEN "raised" ELSE "none"]
       ELSE \E k \in 2..MaxK, sel \in SUBSET valid_birthplaces(sampled_df[s]) :
               IF "ArrivalYear" \notin sampled_df[s].cols
               THEN /\ temporal' = [temporal EXCEPT ![s] = "error"]
                    /\ kmodes' = [kmodes EXCEPT ![s] = clustering_tab(rev, sampled_df[s], k, "Huang")]
               ELSE \E lo \in YearsOf(sampled_df[s]), hi \in YearsOf(sampled_df[s]) :
                       /\ lo <= hi
                       /\ LET selected_df == selected(sampled_df[s], lo, hi)
                          IN  IF rev = "streamlit_app.py"
                              THEN /\ temporal' = [temporal EXCEPT ![s] =
                                                     temporal_tab(selected_df, sel)]
                                   /\ kmodes' = [kmodes EXCEPT ![s] =
                                                   clustering_tab(rev, selected_df, k, "Huang")]
                              ELSE /\ temporal' = [temporal EXCEPT ![s] =
                                                     temporal_tab(in_years(sampled_df[s], lo, hi), sel)]
                                   /\ kmodes' = [kmodes EXCEPT ![s] =
                                                   clustering_tab(rev, sampled_df[s], k, "Huang")]
    /\ pc' = [pc EXCEPT ![s] = "idle"]
    /\ UNCHANGED <<show_intro, seed, sampled_df, selection, cache, load_status>>
    /\ UnchangedOutside

Next ==
    \E s \in Sessions :
        \/ LandingRun(s)
        \/ BeginAnalysis(s)
        \/ Rerun(s)
        \/ LoadAndSample(s)
        \/ Render(s)

Spec == Init /\ [][Next]_vars

----------------------------------------------------------------------------
(* The clustering step run on its own: each session's clustering tab is    *)
(* given the same frame, while other computations draw from the global     *)
(* generator in between                                                    *)

MaxInput == 3

\* frames of two to MaxInput rows taken from the four rows of the cleaned
\* table, in any order and with repeats
ClusterInputs ==
    {DataFrame(DASH_COLS, [i \in DOMAIN pick |-> DashRow(pick[i])]) :
        pick \in UNION {[1..m -> 1..4] : m \in 2..MaxInput}}

InitCluster ==
    /\ IdleAside
    /\ rev \in SCRIPTS
    /\ \E t \in ClusterInputs : sampled_df = [s \in Sessions |-> t]
    /\ np_random \in 0..(RngStates - 1)
    /\ show_intro = [s \in Sessions |-> FALSE]
    /\ pc = [s \in Sessions |-> "sidebar"]
    /\ seed = [s \in Sessions |-> DEFAULT_SEED]
    /\ kmodes = [s \in Sessions |-> NoClustering]
    /\ temporal = [s \in Sessions |-> "none"]
    /\ selection = [s \in Sessions |-> NoSelection]
    /\ fs = [f \in FILES |-> Absent]
    /\ cache = NoCache
    /\ load_status = "not_run"
    /\ pre_status = "not_run"
    /\ post_status = "not_run"
    /\ pre_df = NoFrame
    /\ gs_df = NoFrame /\ gs_n = 0 /\ gs_out = NoCall
    /\ IdleProfile

\* the clustering tab of session s, with the sliders' choices
ClusterRun(s) ==
    /\ pc[s] = "sidebar"
    /\ \E k \in 2..MaxK, init \in INIT_METHODS :
          kmodes' = [kmodes EXCEPT ![s] = clustering_tab(rev, sampled_df[s], k, init)]
    /\ pc' = [pc EXCEPT ![s] = "idle"]
    /\ UNCHANGED <<show_intro, seed, sampled_df, temporal, selection, np_random, cache, load_status>>
    /\ UnchangedOutside

\* another computation of the process (a group.sample of get_sample) draws
\* from the global generator
Draw ==
    /\ np_random' = next_state(np_random)
    /\ UNCHANGED <<show_intro, pc, seed, sampled_df, kmodes, temporal, selection, cache, load_status>>
    /\ UnchangedOutside

NextCluster ==
    \/ \E s \in Sessions : ClusterRun(s)
    \/ Draw

SpecCluster == InitCluster /\ [][NextCluster]_vars

----------------------------------------------------------------------------
(* The derived features on their own: the clustering tab is given frames   *)
(* of two rows, the first with every age tried and the second with every   *)
(* month name tried                                                        *)

MaxAge == 56

AgesTried == {NaN} \cup {Num(a) : a \in -1..MaxAge}

SMARCH == <<"S", "m", "a", "r", "c", "h">>

MonthNames ==
    {DECEMBER, JANUARY, FEBRUARY, MARCH, APRIL, MAY, JUNE, JULY, AUGUST,
     SEPTEMBER, OCTOBER, NOVEMBER}

MonthsTried ==
    {Str(m) : m \in MonthNames \cup {SMARCH, LowerStr(JANUARY), <<>>}} \cup {NaN, Num(1)}

DeriveInputs ==
    {DataFrame(DASH_COLS, <<With(DashRow(1), "AgeAtArrival", age),
                            With(DashRow(2), "ArrivalMonth", month)>>) :
        age \in AgesTried, month \in MonthsTried}

InitDerive ==
    /\ IdleAside
    /\ rev \in SCRIPTS
    /\ \E t \in DeriveInputs : sampled_df = [s \in Sessions |-> t]
    /\ np_random = 0
    /\ show_intro = [s \in Sessions |-> FALSE]
    /\ pc = [s \in Sessions |-> "sidebar"]
    /\ seed = [s \in Sessions |-> DEFAULT_SEED]
    /\ kmodes = [s \in Sessions |-> NoClustering]
    /\ temporal = [s \in Sessions |-> "none"]
    /\ selection = [s \in Sessions |-> NoSelection]
    /\ fs = [f \in FILES |-> Absent]
    /\ cache = NoCache
    /\ load_status = "not_run"
    /\ pre_status = "not_run"
    /\ post_status = "not_run"
    /\ pre_df = NoFrame
    /\ gs_df = NoFrame /\ gs_n = 0 /\ gs_out = NoCall
    /\ IdleProfile

NextDerive == \E s \in Sessions : ClusterRun(s)

SpecDerive == InitDerive /\ [][NextDerive]_vars

----------------------------------------------------------------------------
(* The filter of streamlit_app.py on its own (324-334), over samples whose *)
(* rows differ in birthplace and year                                      *)

MaxSample == 5

IRELAND == <<"I", "r", "e", "l", "a", "n", "d">>

PlacesTried == {Str(ENGLAND), Str(IRELAND), NaN}

YearsTried == {Num(1901), Num(1902)}

\* samples of MaxSample rows: every row with a birthplace of PlacesTried
\* and a year of YearsTried, the first row possibly with no birthplace and
\* the last possibly with no year
FilterInputs ==
    {DataFrame(DASH_COLS,
               [i \in 1..MaxSample |->
                   With(With(DashRow(i), "BirthPlace", bp[i]), "ArrivalYear", yr[i])]) :
        bp \in {b \in [1..MaxSample -> PlacesTried] :
                   \A i \in 2..MaxSample : b[i] # NaN},
        yr \in {y \in [1..MaxSample -> YearsTried \cup {NaN}] :
                   \A i \in 1..(MaxSample - 1) : y[i] # NaN}}

InitFilter ==
    /\ IdleAside
    /\ rev = "streamlit_app.py"
    /\ \E t \in FilterInputs : sampled_df = [s \in Sessions |-> t]
    /\ np_random = 0
    /\ show_intro = [s \in Sessions |-> FALSE]
    /\ pc = [s \in Sessions |-> "sidebar"]
    /\ seed = [s \in Sessions |-> DEFAULT_SEED]
    /\ kmodes = [s \in Sessions |-> NoClustering]
    /\ temporal = [s \in Sessions |-> "none"]
    /\ selection = [s \in Sessions |-> NoSelection]
    /\ fs = [f \in FILES |-> Absent]
    /\ cache = NoCache
    /\ load_status = "not_run"
    /\ pre_status = "not_run"
    /\ post_status = "not_run"
    /\ pre_df = NoFrame
    /\ gs_df = NoFrame /\ gs_n = 0 /\ gs_out = NoCall
    /\ IdleProfile

\* the year slider set to lo..hi, then lines 324-334
FilterRun(s) ==
    /\ pc[s] = "sidebar"
    /\ \E lo \in YearsOf(sampled_df[s]), hi \in YearsOf(sampled_df[s]) :
          /\ lo <= hi
          /\ selection' = [selection EXCEPT ![s] =
                             [lo |-> lo, hi |-> hi, df |-> selected(sampled_df[s], lo, hi)]]
    /\ pc' = [pc EXCEPT ![s] = "idle"]
    /\ UNCHANGED <<show_intro, seed, sampled_df, kmodes, temporal, np_random, cache, load_status>>
    /\ UnchangedOutside

NextFilter == \E s \in Sessions : FilterRun(s)

SpecFilter == InitFilter /\ [][NextFilter]_vars

----------------------------------------------------------------------------
(* Code/random-letter-selector.py: the bins of the study period, each with *)
(* its randomly chosen letters                                             *)

num_bins == 7

\* entries_per_bin of the script is 20; the letters do not bear on the
\* ranges, and fewer are drawn here
EntriesPerBin == 1

\* the letters random.choice is seen to give
LettersTried == {"A", "Z"}

\* the span of years counted without its last year
year_range_exclusive == StudyEnd - StudyStart

year_range == StudyEnd - StudyStart + 1

bin_size == year_range \div num_bins

\* the loop body for index i of range(num_bins)
bin_start(i) == StudyStart + i * bin_size

bin_end(i) == IF i < num_bins - 1 THEN bin_start(i) + bin_size - 1 ELSE StudyEnd

\* str(n) of a non-negative integer: its decimal digits
RECURSIVE str_int(_)
str_int(n) ==
    IF n < 10 THEN <<DIGITS[n + 1]>>
    ELSE str_int(n \div 10) \o <<DIGITS[(n % 10) + 1]>>

\* f"{bin_start}-{bin_end}"
range_text(i) == str_int(bin_start(i)) \o <<"-">> \o str_int(bin_end(i))

InitLetters ==
    /\ fs = [f \in FILES |-> Absent]
    /\ NoRunYet

\* one pass of the for loop: bins.append({...})
AppendBin ==
    /\ Len(letter_bins) < num_bins
    /\ \E letters \in [1..EntriesPerBin -> LettersTried] :
          letter_bins' = Append(letter_bins,
                                [bin |-> Len(letter_bins) + 1,
                                 year_range |-> range_text(Len(letter_bins)),
                                 letters |-> letters])
    /\ UNCHANGED <<birthplaces, annotated, varsPipe, varsSample, varsProfile, varsDash>>

NextLetters == AppendBin

SpecLetters == InitLetters /\ [][NextLetters]_vars

----------------------------------------------------------------------------
(* annotate_chart and the events handed to it by the temporal tab          *)
(* (streamlit_app.py 85-131, 165-220, 723-733)                             *)

Event(year, label) == [year |-> year, label |-> label]

COUNTRIES == {"United Kingdom", "German Empire", "Russian Empire", "Scandinavia", "Global"}

historical_events_by_country ==
    [c \in COUNTRIES |->
        CASE c = "United Kingdom" ->
                 <<Event(1885, "U.S. Recovery Begins"), Event(1886, "U.S. Recession"),
                   Event(1887, "English Disruptions"), Event(1888, "Shipping Bottlenecks")>>
          [] c = "German Empire" ->
                 <<Event(1871, "German Unification"), Event(1886, "Ruhr Mining Crisis"),
                   Event(1890, "Industrial Expansion")>>
          [] c = "Russian Empire" ->
                 <<Event(1881, "Assassination of Tsar Alexander II"),
                   Event(1881, "Pogroms & Anti-Jewish Legislation"),
                   Event(1905, "Russian Revolution of 1905")>>
          [] c = "Scandinavia" ->
                 <<Event(1870, "Scandinavian Agricultural Decline"),
                   Event(1880, "Sweden Industrializes"),
                   Event(1905, "Norway-Sweden Dissolution")>>
          [] c = "Global" ->
                 <<Event(1873, "Long Depression"),
                   Event(1880, "Steamships Revolutionize Travel"),
                   Event(1914, "World War I Begins")>>]

MAPPED_BIRTHPLACES ==
    {"England", "Ireland", "Scotland", "Wales", "Germany", "Prussia", "Bavaria",
     "Russia", "Poland", "Norway", "Sweden", "Denmark", "Finland"}

birthplace_to_country ==
    [bp \in MAPPED_BIRTHPLACES |->
        CASE bp \in {"England", "Ireland", "Scotland", "Wales"} -> "United Kingdom"
          [] bp \in {"Germany", "Prussia", "Bavaria"} -> "German Empire"
          [] bp \in {"Russia", "Poland"} -> "Russian Empire"
          [] OTHER -> "Scandinavia"]

\* lines 723-727: the set of countries of the selected birthplaces
countries(chosen) ==
    {birthplace_to_country[bp] : bp \in chosen \cap MAPPED_BIRTHPLACES}
        \cap DOMAIN historical_events_by_country

\* the orders in which a for loop may go through a set of strings: the
\* order follows the strings' hashes, which differ from one server process
\* to the next
Orders(S) ==
    {o \in [1..Cardinality(S) -> S] : \A i, j \in 1..Cardinality(S) : o[i] = o[j] => i = j}

\* lines 729-731 for the countries taken in this order
RECURSIVE events_to_annotate(_)
events_to_annotate(order) ==
    IF order = <<>> THEN <<>>
    ELSE historical_events_by_country[Head(order)] \o events_to_annotate(Tail(order))

offsets == <<-20, -35, -50, -65, -80, -95>>

\* the text layers annotate_chart adds, one per event, in order: the event
\* and the dy of its label
annotate_chart(events) ==
    [idx \in 1..Len(events) |->
        [year |-> events[idx].year, label |-> events[idx].label,
         dy |-> offsets[((idx - 1) % Len(offsets)) + 1]]]

\* the birthplaces the multiselect is tried with: two of one country, one
\* of each other country, and one that has no country
BirthplacesTried == {"England", "Ireland", "Germany", "Russia", "Sweden", "France"}

InitAnnotate ==
    /\ letter_bins = <<>>
    /\ birthplaces \in SUBSET BirthplacesTried
    /\ annotated = NoLayers
    /\ fs = [f \in FILES |-> Absent]
    /\ IdleSample
    /\ IdleProfile
    /\ IdleDash
    /\ pre_status = "not_run"
    /\ post_status = "not_run"
    /\ pre_df = NoFrame
    /\ cache = NoCache
    /\ load_status = "not_run"

\* the temporal tab drawing its chart with the events of the selection
Annotate ==
    /\ ~annotated.done
    /\ \E order \in Orders(countries(birthplaces)) :
          annotated' = [done |-> TRUE,
                        layers |-> annotate_chart(events_to_annotate(order))]
    /\ UNCHANGED <<letter_bins, birthplaces, varsPipe, varsSample, varsProfile, varsDash>>

NextAnnotate == Annotate

SpecAnnotate == InitAnnotate /\ [][NextAnnotate]_vars


----------------------------------------------------------------------------
(* Claims about the cleaning pass (SpecClean) and the files (SpecPipeline) *)

\* the single row of the raw table, and of the frame the pass ended with
RawCell(col) == fs[RAW_FILE].df.rows[1][col]

CleanCell(col) == pre_df.rows[1][col]

CleanedOneRow == pre_status = "ok" /\ Len(fs[RAW_FILE].df.rows) = 1

\* the pass ended and kept the rows of the raw table in their order (the
\* sort by ArrivalDate had nothing to move)
CleanedInOrder ==
    /\ pre_status = "ok"
    /\ "ArrivalDate" \in fs[RAW_FILE].df.cols
    /\ \A i \in 1..Len(fs[RAW_FILE].df.rows) :
          fs[RAW_FILE].df.rows[i]["ArrivalDate"] = fs[RAW_FILE].df.rows[1]["ArrivalDate"]

\* C5: every date of the study period 1880-1914, written in any of the
\* four supported formats, is parsed to that same calendar date, and
\* ArrivalYear is its year.
C5_StudyDatesRecovered ==
    CleanedOneRow =>
        \A f \in 1..Len(FORMATS), dt \in StudyDates, pad \in BOOLEAN :
            RawCell("ArrivalDate") = RawDate(WriteDate(f, dt[1], dt[2], dt[3], pad))
            => /\ CleanCell("ArrivalDate") = Ts(dt[1], dt[2], dt[3])
               /\ CleanCell("ArrivalYear") = Num(dt[1])

\* C6: an input that parse_dates cannot read (a string in none of the four
\* formats, the empty string, a missing value) never makes the pass raise;
\* the parsed date is the missing marker and so is the derived ArrivalYear
\* (never zero, never another year).
C6_UnparseableIsMissing ==
    (/\ pre_status # "not_run"
     /\ Len(fs[RAW_FILE].df.rows) = 1
     /\ "ArrivalDate" \in fs[RAW_FILE].df.cols
     /\ RawCell("ArrivalDate") \in UnparseableDates)
    => /\ pre_status = "ok"
       /\ CleanCell("ArrivalDate") = NaN
       /\ CleanCell("ArrivalYear") = NaN

C6_Witness ==
    /\ CleanedOneRow
    /\ "ArrivalDate" \in fs[RAW_FILE].df.cols
    /\ RawCell("ArrivalDate") = RawDate(<<WordTok>>)
    /\ CleanCell("ArrivalYear") = NaN

\* the connective " and " in every letter case
Connectives ==
    {<<" ", a, n, d, " ">> : a \in {"a", "A"}, n \in {"n", "N"}, d \in {"d", "D"}}

ConnectiveAt(s, i) == i + 4 <= Len(s) /\ SubSeq(s, i, i + 4) \in Connectives

\* the text after the last connective, whatever its letter case, scanning
\* as split does
RECURSIVE AfterLastConnective(_, _, _)
AfterLastConnective(s, i, start) ==
    IF i > Len(s) THEN SubSeq(s, start, Len(s))
    ELSE IF ConnectiveAt(s, i)
         THEN AfterLastConnective(s, i + 5, i + 5)
         ELSE AfterLastConnective(s, i + 1, start)

\* C7: whenever the pass sets TransitIndicator for a record, the resulting
\* DeparturePlace is the trimmed text after the last " and " connective of
\* the raw string, in every letter case the detection accepts; a string
\* without a connective passes through trimmed.
C7_LastPortKept ==
    (CleanedOneRow /\ "DeparturePlace" \in fs[RAW_FILE].df.cols
        /\ RawCell("DeparturePlace").t = "str")
    => CleanCell("DeparturePlace") =
          Str(Strip(AfterLastConnective(RawCell("DeparturePlace").s, 1, 1)))

\* C8: TransitIndicator is true exactly when the raw DeparturePlace is a
\* string that contains the connective " and " in some letter case; it is
\* false for a missing value and for a string without the connective.
C8_TransitIffConnective ==
    (CleanedInOrder /\ "DeparturePlace" \in fs[RAW_FILE].df.cols)
    => \A r \in 1..Len(fs[RAW_FILE].df.rows) :
          LET place == fs[RAW_FILE].df.rows[r]["DeparturePlace"]
          IN  pre_df.rows[r]["TransitIndicator"] =
                 Bool(/\ place.t = "str"
                      /\ \E i \in 1..Len(place.s) : ConnectiveAt(place.s, i))

C8_Witness ==
    /\ CleanedOneRow
    /\ "DeparturePlace" \in fs[RAW_FILE].df.cols
    /\ RawCell("DeparturePlace") = Str(LIVERPOOL \o <<" ", "A", "N", "D", " ">> \o QUEENSTOWN)
    /\ CleanCell("TransitIndicator") = Bool(TRUE)

\* C10: a load made by the dashboard after the preprocessing script has
\* run succeeds and reads a file that the cleaning scripts wrote.
C10_LoadsCleanedOutput ==
    [][(pre_status = "ok" /\ load_status' # load_status)
         => (/\ load_status' = "ok"
             /\ cache'.writer \in {"preprocessing", "postprocessing"})]_vars

----------------------------------------------------------------------------
(* Claims about get_sample (SpecSample) *)

RowsInBin(df, b) == Cardinality({i \in 1..Len(df.rows) : df.rows[i]["Bin"] = Num(b)})

Smaller(a, b) == IF a <= b THEN a ELSE b

\* C1: for every input table and cap N >= 1, the table get_sample returns
\* holds, for each Bin value of the input, exactly min(rows of that bin, N)
\* rows of that bin, and no row of a bin value absent from the input.
C1_PerBinCount ==
    (gs_out.called /\ ~gs_out.raised)
    => /\ \A b \in BinKeys(gs_df) :
             RowsInBin(gs_out.df, b) = Smaller(RowsInBin(gs_df, b), gs_n)
       /\ \A i \in 1..Len(gs_out.df.rows) :
             /\ ~isna(gs_out.df.rows[i]["Bin"])
             /\ gs_out.df.rows[i]["Bin"].n \in BinKeys(gs_df)

C1_Witness ==
    /\ gs_out.called
    /\ ~gs_out.raised
    /\ RowsInBin(gs_df, 1) > gs_n
    /\ RowsInBin(gs_df, 2) \in 1..(gs_n - 1)
    /\ Len(gs_out.df.rows) = gs_n + RowsInBin(gs_df, 2)

----------------------------------------------------------------------------
(* Claims about the cluster profiles (SpecProfile) *)

ProfileVals(cluster, col) == ClusterValues(km_df.rows, cluster, col)

MostFrequent(vals, v) ==
    /\ \E i \in 1..Len(vals) : vals[i] = v
    /\ \A k \in 1..Len(vals) : Occurrences(vals, vals[k]) <= Occurrences(vals, v)

FirstIndex(vals, v) == Min({i \in 1..Len(vals) : vals[i] = v})

\* C9 as claimed: the profile value is a most frequent category of the
\* feature among the cluster's rows, and of several tied categories it is
\* the one that occurs first in row order.
C9_TieFirstInRowOrder ==
    profiles.done =>
        \A cluster \in DOMAIN profiles.of, col \in CAT_COLS :
            LET vals == ProfileVals(cluster, col)
                v == profiles.of[cluster][col]
            IN  /\ MostFrequent(vals, v)
                /\ \A w \in {vals[i] : i \in 1..Len(vals)} :
                      MostFrequent(vals, w) => FirstIndex(vals, v) <= FirstIndex(vals, w)

\* C9 as amended: the profile value is a most frequent category of the
\* feature among the cluster's rows, and of several tied categories it is
\* the smallest in string order, wherever it occurs in the rows.
C9_TieSmallestInSortOrder ==
    profiles.done =>
        /\ DOMAIN profiles.of = ClustersOf(km_df)
        /\ \A cluster \in DOMAIN profiles.of, col \in CAT_COLS :
              LET vals == ProfileVals(cluster, col)
                  v == profiles.of[cluster][col]
              IN  /\ MostFrequent(vals, v)
                  /\ \A w \in {vals[i] : i \in 1..Len(vals)} :
                        (MostFrequent(vals, w) /\ w # v) => LexLess(v.s, w.s)

\* a cluster whose first row is Male and second Female, one each: the
\* profile is Female
C9_Witness ==
    /\ profiles.done
    /\ 0 \in DOMAIN profiles.of
    /\ ProfileVals(0, "Gender") = <<Str(MALE), Str(FEMALE)>>
    /\ profiles.of[0]["Gender"] = Str(FEMALE)

----------------------------------------------------------------------------
(* Claims about the dashboard (Spec) *)

\* the session's last run went through to the tabs
Rendered(s) == pc[s] = "idle" /\ kmodes[s].status # "none"

\* C2: two runs of streamlit_app.py given the same Random Seed value and
\* the same cleaned table draw the same per-bin sample, whatever ran
\* before.
C2_SameSeedSameSample ==
    rev = "streamlit_app.py" =>
        \A s1 \in Sessions, s2 \in Sessions :
            (Rendered(s1) /\ Rendered(s2) /\ seed[s1] = seed[s2])
            => sampled_df[s1] = sampled_df[s2]

\* C3: when a row reaching the clustering step has a missing value in a
\* configured feature column, the step does not run KModes: it rejects the
\* input and names the column, and no row is dropped on the way.
C3_NullRejected ==
    \A s \in Sessions :
        \A i \in 1..Len(kmodes[s].df_rel), c \in CAT_COLS :
            (c \in DOMAIN kmodes[s].df_rel[i] /\ isna(kmodes[s].df_rel[i][c]))
            => /\ kmodes[s].status = "skipped"
               /\ c \in kmodes[s].named

\* C4: a record whose AgeAtArrival, ArrivalMonth, BirthPlace or
\* DeparturePlace is missing never enters KModes under a derived category;
\* the clustering step does not run on a frame that holds such a record.
C4_NoSubstitutedCategory ==
    \A s \in Sessions :
        (\E i \in 1..Len(kmodes[s].df_rel) : HasNull(kmodes[s].df_rel[i], SOURCE_COLS))
        => kmodes[s].status # "ran"

\* the sample a run of streamlit_app.py would draw from the cached table
\* with the global generator in state st
DrawFrom(st) == get_sample(assign_BinLabel(cache.df), SamplePerBin, st).df

\* C11: between a session's seeding (np.random.seed at the end of its run)
\* and its next sampling, the run of another session cannot change the
\* sample the session is about to draw: it is the sample drawn from the
\* generator as the session's own seed left it.
C11_OwnSeedDecidesNextDraw ==
    rev = "streamlit_app.py" =>
        \A s \in Sessions :
            Rendered(s) => DrawFrom(np_random) = DrawFrom(seed_state(seed[s]))

----------------------------------------------------------------------------
(* Further claims about get_sample (SpecSample) *)

TimesIn(rows, row) == Cardinality({i \in 1..Len(rows) : rows[i] = row})

\* C12: every row get_sample returns is a row of the input table, it
\* belongs to a bin of the input, and no row appears in the output more
\* often than it appears in the input.
C12_RowsOfInputOnce ==
    (gs_out.called /\ ~gs_out.raised)
    => \A i \in 1..Len(gs_out.df.rows) :
          LET row == gs_out.df.rows[i]
          IN  /\ TimesIn(gs_df.rows, row) >= 1
              /\ TimesIn(gs_out.df.rows, row) <= TimesIn(gs_df.rows, row)
              /\ ~isna(row["Bin"])
              /\ \E k \in 1..Len(SelectRows(gs_df.rows, row["Bin"].n)) :
                    SelectRows(gs_df.rows, row["Bin"].n)[k] = row

\* a bin of three rows sampled down to two, next to a bin kept whole
C12_Witness ==
    /\ gs_out.called
    /\ ~gs_out.raised
    /\ gs_n = 2
    /\ RowsInBin(gs_df, 1) = 3
    /\ RowsInBin(gs_df, 2) = 1
    /\ Len(gs_out.df.rows) = 3

----------------------------------------------------------------------------
(* Further claims about the clustering tab (Spec) *)

\* the columns the clustering step depends on
NEEDED_COLS == SOURCE_COLS \cup {"Gender"}

\* C13: when a column the clustering step depends on (BirthPlace,
\* DeparturePlace, ArrivalMonth, AgeAtArrival, Gender) is absent from the
\* table, a run of streamlit_app.py that gets to the tabs ends the
\* clustering step with a message naming the absent column(s): it neither
\* raises nor runs KModes.
C13_AbsentColumnNamed ==
    rev = "streamlit_app.py" =>
        \A s \in Sessions :
            (Rendered(s) /\ ~(NEEDED_COLS \subseteq sampled_df[s].cols))
            => /\ kmodes[s].status = "skipped"
               /\ (NEEDED_COLS \ sampled_df[s].cols) \subseteq kmodes[s].named

\* the filters of the session's last run left no row for the tabs
NothingSelected(s) ==
    /\ Rendered(s)
    /\ NEEDED_COLS \subseteq sampled_df[s].cols
    /\ kmodes[s].k > 0
    /\ kmodes[s].df_rel = <<>>

\* C14: when the year-range and minimum-record filters leave zero rows,
\* the clustering step of streamlit_app.py neither runs KModes nor raises:
\* it ends in its labelled no-result state, and the temporal tab shows the
\* "no data for the selected filters" warning.
C14_EmptySelectionReported ==
    rev = "streamlit_app.py" =>
        \A s \in Sessions :
            NothingSelected(s)
            => /\ kmodes[s].status = "skipped"
               /\ temporal[s] = "warning"

----------------------------------------------------------------------------
(* Claims about KModes runs (SpecCluster) *)

----------------------------------------------------------------------------
(* Claims about the heatmaps (SpecProfile) *)

RECURSIVE SumCounts(_)
SumCounts(heat) == IF heat = <<>> THEN 0 ELSE Head(heat).Count + SumCounts(Tail(heat))

PairCount(x_col, v, c) ==
    Cardinality({j \in 1..Len(km_df.rows) :
                    km_df.rows[j][x_col] = v /\ km_df.rows[j]["Cluster"] = Num(c)})

\* C16: for each feature column, the contingency table has exactly one row
\* for each (value, cluster) pair that occurs in the clustered table, with
\* Count the number of rows of the pair; a pair without rows has no row,
\* and the Counts add up to the number of clustered rows.
C16_OneRowPerOccurringPair ==
    profiles.done =>
        \A x_col \in CAT_COLS :
            LET heat == profiles.heat[x_col]
            IN  /\ \A j \in 1..Len(km_df.rows) :
                      Cardinality({i \in 1..Len(heat) :
                                      /\ heat[i].value = km_df.rows[j][x_col]
                                      /\ Num(heat[i].Cluster) = km_df.rows[j]["Cluster"]}) = 1
                /\ \A i \in 1..Len(heat) :
                      /\ heat[i].Count >= 1
                      /\ heat[i].Count = PairCount(x_col, heat[i].value, heat[i].Cluster)
                /\ SumCounts(heat) = Len(km_df.rows)

\* three rows, two of them Winter in cluster 0: two rows in the Season
\* table, one with Count 2, and no row for Fall in cluster 0
C16_Witness ==
    /\ profiles.done
    /\ Len(km_df.rows) = 3
    /\ ClustersOf(km_df) = {0, 1}
    /\ Len(profiles.heat["Season"]) = 2
    /\ profiles.heat["Season"][1].Count = 2
    /\ PairCount("Season", Str(FALL), 0) = 0

\* C17: the Profile of each contingency-table row lists, for the row's own
\* cluster, the profile value of every configured feature except the
\* chosen column, each once, and the profile of every cluster in the table
\* is found.
C17_ProfileOfOtherFeatures ==
    profiles.done =>
        \A x_col \in CAT_COLS :
            \A i \in 1..Len(profiles.heat[x_col]) :
                LET row == profiles.heat[x_col][i]
                IN  /\ row.Cluster \in DOMAIN profiles.of
                    /\ Len(row.Profile) = Cardinality(CAT_COLS \ {x_col})
                    /\ {row.Profile[j][1] : j \in 1..Len(row.Profile)} = CAT_COLS \ {x_col}
                    /\ \A j \in 1..Len(row.Profile) :
                          row.Profile[j][2] = profiles.of[row.Cluster][row.Profile[j][1]]

\* two clusters whose Gender profiles differ, shown in the Season table
C17_Witness ==
    /\ profiles.done
    /\ ClustersOf(km_df) = {0, 1}
    /\ profiles.of[0]["Gender"] # profiles.of[1]["Gender"]
    /\ \E i \in 1..Len(profiles.heat["Season"]), j \in 1..Len(profiles.heat["Season"]) :
          /\ profiles.heat["Season"][i].Cluster = 0
          /\ profiles.heat["Season"][j].Cluster = 1
          /\ profiles.heat["Season"][i].Profile # profiles.heat["Season"][j].Profile

----------------------------------------------------------------------------
(* Further claims about the cleaning pass (SpecClean) *)

PrefixTokens ==
    {<<"R", "M", "S">>, <<"S", "S">>, <<"M", "V">>, <<"H", "M", "S">>}

\* name is token, then n >= 1 whitespace characters, then rest, and rest
\* does not begin with whitespace
SplitsAs(name, token, n, rest) ==
    /\ Len(token) + n <= Len(name)
    /\ name = token \o SubSeq(name, Len(token) + 1, Len(token) + n) \o rest
    /\ \A j \in (Len(token) + 1)..(Len(token) + n) : name[j] \in Whitespace
    /\ rest = <<>> \/ rest[1] \notin Whitespace

Stripped(name) ==
    IF \E token \in PrefixTokens, n \in 1..Len(name) :
          SplitsAs(name, token, n, SubSeq(name, Len(token) + n + 1, Len(name)))
    THEN LET c == CHOOSE c \in PrefixTokens \X (1..Len(name)) :
                     SplitsAs(name, c[1], c[2], SubSeq(name, Len(c[1]) + c[2] + 1, Len(name)))
         IN  SubSeq(name, Len(c[1]) + c[2] + 1, Len(name))
    ELSE name

Alias(name) ==
    IF name = <<"A", "u", "g", "u", "s", "t", "a", " ", "V", "i", "c", "t", "o", "r", "i", "a">>
    THEN <<"K", "a", "i", "s", "e", "r", "i", "n", " ">> \o name
    ELSE name

\* C18: the cleaned ShipName is alias(strip(name)): one leading prefix
\* token of RMS, SS, MV, HMS followed by whitespace is removed, then the
\* exact-match alias is applied; a name with no such prefix and no alias
\* entry passes through unchanged, and a missing name stays missing.
C18_AliasOfStripped ==
    (CleanedInOrder /\ "ShipName" \in fs[RAW_FILE].df.cols)
    => \A i \in 1..Len(fs[RAW_FILE].df.rows) :
          LET name == fs[RAW_FILE].df.rows[i]["ShipName"]
          IN  pre_df.rows[i]["ShipName"] =
                 IF name.t = "str" THEN Str(Alias(Stripped(name.s))) ELSE NaN

\* "SS Augusta Victoria" cleaned to "Kaiserin Augusta Victoria"
C18_Witness ==
    /\ CleanedOneRow
    /\ "ShipName" \in fs[RAW_FILE].df.cols
    /\ RawCell("ShipName") = Str(<<"S", "S", " ">> \o AUGUSTA_VICTORIA)
    /\ CleanCell("ShipName") = Str(KAISERIN \o AUGUSTA_VICTORIA)

NumericBirth == {Num(1870), Str(<<"1", "8", "7", "0">>)}

\* the raw table has every column and, in ShipName and in DeparturePlace,
\* a row with a value: nothing but BirthDate is unusual
OnlyBirthDateInQuestion ==
    /\ RAW_COLS \subseteq fs[RAW_FILE].df.cols
    /\ \A c \in {"ShipName", "DeparturePlace"} :
          \E i \in 1..Len(fs[RAW_FILE].df.rows) : fs[RAW_FILE].df.rows[i][c].t = "str"

\* C19: a non-numeric BirthDate never makes the preprocessing pass fail: it
\* becomes a missing value; AgeAtArrival is ArrivalYear minus BirthDate
\* when both are present and is missing when either is missing.
C19_AgeFromCoercedBirthDate ==
    (pre_status # "not_run" /\ OnlyBirthDateInQuestion)
    => /\ pre_status = "ok"
       /\ \A i \in 1..Len(pre_df.rows) :
             LET year == pre_df.rows[i]["ArrivalYear"]
                 born == pre_df.rows[i]["BirthDate"]
             IN  /\ born \in {Num(1870), NaN}
                 /\ pre_df.rows[i]["AgeAtArrival"] =
                       IF year.t = "num" /\ born.t = "num"
                       THEN Num(year.n - born.n) ELSE NaN
       /\ CleanedInOrder =>
             \A i \in 1..Len(pre_df.rows) :
                 pre_df.rows[i]["BirthDate"] =
                    IF fs[RAW_FILE].df.rows[i]["BirthDate"] \in NumericBirth
                    THEN Num(1870) ELSE NaN

\* BirthDate "ca": the pass ends, with BirthDate and AgeAtArrival missing
C19_Witness ==
    /\ CleanedOneRow
    /\ OnlyBirthDateInQuestion
    /\ RawCell("BirthDate") = Str(<<"c", "a">>)
    /\ CleanCell("BirthDate") = NaN
    /\ CleanCell("AgeAtArrival") = NaN

----------------------------------------------------------------------------
(* Further claims: frame conditions, derived features, dates, files, bins *)

DerivedRows == UNION {{kmodes[s].df_rel[i] : i \in 1..Len(kmodes[s].df_rel)} : s \in Sessions}

\* C22: every numeric age gets the category of its range: Child below 15,
\* YoungAdult from 15 to 23, Adult from 24 to 54, Senior from 55 on.
C22_AgeCategoryOfRange ==
    \A r \in DerivedRows :
        r["AgeAtArrival"].t = "num" =>
            LET age == r["AgeAtArrival"].n
            IN  r["AgeCategory"] =
                    Str(CASE age < 15 -> CHILD
                          [] age >= 15 /\ age < 24 -> YOUNG_ADULT
                          [] age >= 24 /\ age < 55 -> ADULT
                          [] age >= 55 -> SENIOR)

\* age 15, the least YoungAdult
C22_Witness ==
    \E r \in DerivedRows :
        r["AgeAtArrival"] = Num(15) /\ r["AgeCategory"] = Str(YOUNG_ADULT)

\* C23: get_season gives the season of each of the twelve month names and
\* Unknown for anything else: a name that is no month, a month name in
\* another case, the empty string, a number, a missing value.
C23_SeasonTotal ==
    \A r \in DerivedRows :
        r["Season"] =
            Str(CASE r["ArrivalMonth"] \in {Str(DECEMBER), Str(JANUARY), Str(FEBRUARY)} -> WINTER
                  [] r["ArrivalMonth"] \in {Str(MARCH), Str(APRIL), Str(MAY)} -> SPRING
                  [] r["ArrivalMonth"] \in {Str(JUNE), Str(JULY), Str(AUGUST)} -> SUMMER
                  [] r["ArrivalMonth"] \in {Str(SEPTEMBER), Str(OCTOBER), Str(NOVEMBER)} -> FALL
                  [] OTHER -> UNKNOWN)

\* "Smarch" is given the season Unknown
C23_Witness ==
    \E r \in DerivedRows :
        r["ArrivalMonth"] = Str(SMARCH) /\ r["Season"] = Str(UNKNOWN)

\* the formats that read the raw ArrivalDate without raising
Parsing(v) == {i \in 1..Len(FORMATS) : ~to_datetime(v, FORMATS[i]).raised}

\* a numeric date a/b/y with a four-digit year that exists when a is
\* taken as the month
MonthFirstDate(v) ==
    /\ v.t = "raw"
    /\ Len(v.k) = 5
    /\ \A i \in {1, 3, 5} : v.k[i].k = "num"
    /\ \A i \in {2, 4} : v.k[i] = SepTok("/")
    /\ v.k[1].w \in {1, 2} /\ v.k[3].w \in {1, 2} /\ v.k[5].w = 4
    /\ ValidDate(v.k[5].v, v.k[1].v, v.k[3].v)

\* C24: the ArrivalDate parse_dates gives is the reading of the first of
\* the four formats, in their order, that reads the string, and a missing
\* date when none does; a numeric date with a four-digit year is read
\* month first whenever that reading exists, so "03/04/1901" is the 4th of
\* March 1901.
C24_FirstFormatThatParses ==
    (CleanedOneRow /\ "ArrivalDate" \in fs[RAW_FILE].df.cols) =>
        LET v == RawCell("ArrivalDate")
        IN  /\ CleanCell("ArrivalDate") =
                   IF Parsing(v) = {} THEN NaN
                   ELSE to_datetime(v, FORMATS[Min(Parsing(v))]).val
            /\ MonthFirstDate(v) =>
                   CleanCell("ArrivalDate") = Ts(v.k[5].v, v.k[1].v, v.k[3].v)
            /\ v = RawDate(WriteDate(3, 1901, 3, 4, TRUE)) =>
                   CleanCell("ArrivalDate") = Ts(1901, 3, 4)

\* "03/04/1901" was cleaned to the 4th of March 1901
C24_Witness ==
    /\ CleanedOneRow
    /\ "ArrivalDate" \in fs[RAW_FILE].df.cols
    /\ RawCell("ArrivalDate") = RawDate(WriteDate(3, 1901, 3, 4, TRUE))
    /\ CleanCell("ArrivalDate") = Ts(1901, 3, 4)

\* C25: no run of a cleaning script changes a file that a cleaning script
\* reads: project-data-master.csv and migration_master_clean.csv are after
\* every run what they were before it.
C25_InputsNeverWritten ==
    [][/\ fs'[RAW_FILE] = fs[RAW_FILE]
       /\ fs'[MASTER_CLEAN_FILE] = fs[MASTER_CLEAN_FILE]]_vars

\* both scripts have run to their end and saved their output, and the raw
\* file is still the one that was put there
C25_Witness ==
    /\ pre_status = "ok"
    /\ post_status = "ok"
    /\ fs[READY_FILE].exists
    /\ fs[READY_FILE].writer \in {"preprocessing", "postprocessing"}
    /\ fs[RAW_FILE].writer = "external"

\* the columns the preprocessing pass reads by name
REQUIRED_COLS == {"ArrivalDate", "DeparturePlace", "BirthDate", "Bin", "FirstName", "LastName"}

\* C26: when the raw table has the required columns and the preprocessing
\* pass runs to its end, the file it writes has every column of the raw
\* table and also ArrivalYear and TransitIndicator, and as many rows as
\* the raw table.
C26_OutputSupersetOfInput ==
    (pre_status = "ok" /\ REQUIRED_COLS \subseteq fs[RAW_FILE].df.cols) =>
        /\ fs[READY_FILE].exists
        /\ fs[READY_FILE].writer = "preprocessing"
        /\ fs[RAW_FILE].df.cols \cup {"ArrivalYear", "TransitIndicator"}
              \subseteq fs[READY_FILE].df.cols
        /\ Len(fs[READY_FILE].df.rows) = Len(fs[RAW_FILE].df.rows)

\* a table of three rows, one of them without a date, was cleaned and
\* written
C26_Witness ==
    /\ pre_status = "ok"
    /\ REQUIRED_COLS \subseteq fs[RAW_FILE].df.cols
    /\ Len(fs[RAW_FILE].df.rows) = 3
    /\ \E i \in 1..3 : isna(fs[RAW_FILE].df.rows[i]["ArrivalDate"])
    /\ Len(fs[READY_FILE].df.rows) = 3
    /\ "TransitIndicator" \in fs[READY_FILE].df.cols

\* the years a bin of the letter-selection script covers
YearsOfBin(i) == bin_start(i - 1)..bin_end(i - 1)

\* C27: the bins are numbered 1..7 in the order they are made; bin i runs
\* from 1880+5(i-1) to 1884+5(i-1), so the seven ranges are disjoint and
\* cover 1880-1914 exactly; and the range written for bin i is the label
\* the dashboard gives to bin number i.
C27_BinsPartitionStudyPeriod ==
    /\ Len(letter_bins) <= 7
    /\ \A i \in 1..Len(letter_bins) :
          /\ letter_bins[i].bin = i
          /\ YearsOfBin(i) = (1880 + 5 * (i - 1))..(1884 + 5 * (i - 1))
          /\ letter_bins[i].year_range = bin_labels[i]
          /\ \A j \in 1..Len(letter_bins) : j # i => YearsOfBin(i) \cap YearsOfBin(j) = {}
    /\ Len(letter_bins) = 7 =>
          /\ UNION {YearsOfBin(i) : i \in 1..7} = 1880..1914
          /\ DOMAIN bin_labels = {letter_bins[i].bin : i \in 1..7}

\* the loop has ended: seven bins, the last one written "1910-1914"
C27_Witness ==
    /\ Len(letter_bins) = 7
    /\ letter_bins[7].year_range = bin_labels[7]
    /\ letter_bins[1].year_range = <<"1", "8", "8", "0", "-", "1", "8", "8", "4">>

\* C28: no two labels drawn for the same year have the same vertical
\* offset, whatever birthplaces are selected and in whatever order their
\* countries are gone through.
C28_SameYearLabelsApart ==
    \A i, j \in 1..Len(annotated.layers) :
        (i # j /\ annotated.layers[i].year = annotated.layers[j].year)
        => annotated.layers[i].dy # annotated.layers[j].dy

\* how many rows of df have this birthplace
RowsBornIn(df, bp) == Cardinality({i \in 1..Len(df.rows) : df.rows[i]["BirthPlace"] = bp})

\* C29: selected_df holds rows of the sample only, none more often than
\* the sample does; each has its ArrivalYear inside the selected range,
\* ends included; and each has a birthplace that at least 3 rows of
\* selected_df have.
C29_SelectedWithinRangeAndFrequent ==
    \A s \in Sessions :
        LET sel == selection[s].df
        IN  \A i \in 1..Len(sel.rows) :
                /\ sel.rows[i]["ArrivalYear"].t = "num"
                /\ sel.rows[i]["ArrivalYear"].n >= selection[s].lo
                /\ sel.rows[i]["ArrivalYear"].n <= selection[s].hi
                /\ RowsBornIn(sel, sel.rows[i]["BirthPlace"]) >= 3
                /\ TimesIn(sel.rows, sel.rows[i]) <= TimesIn(sampled_df[s].rows, sel.rows[i])

\* a range of one year kept the three England rows of that year and
\* dropped the Ireland rows, fewer than three in that year
C29_Witness ==
    \E s \in Sessions :
        /\ selection[s].lo = 1901
        /\ selection[s].hi = 1901
        /\ Len(selection[s].df.rows) = 3
        /\ RowsBornIn(selection[s].df, Str(ENGLAND)) = 3
        /\ RowsBornIn(sampled_df[s], Str(IRELAND)) = 2
        /\ RowsBornIn(sampled_df[s], Str(ENGLAND)) = 3

\* session s has not got past the landing page: nothing was loaded,
\* sampled or clustered for it
OnlyLanding(s) ==
    /\ pc[s] = "idle"
    /\ sampled_df[s] = NoFrame
    /\ kmodes[s] = NoClustering
    /\ temporal[s] = "none"

\* C30: every session starts with show_intro true; as long as it is true
\* the session's runs end at the landing page, with no load, sample or
\* clustering made for it; show_intro turns false only in a step of the
\* Begin Analysis callback, and once false it stays false.
C30_IntroGate ==
    /\ \A s \in Sessions : show_intro[s]
    /\ [](\A s \in Sessions : show_intro[s] => OnlyLanding(s))
    /\ [][\A s \in Sessions :
            /\ (show_intro[s] /\ ~show_intro'[s]) => BeginAnalysis(s)
            /\ ~show_intro[s] => ~show_intro'[s]]_vars

\* one session is still on the landing page while the other has begun
\* and gone through to its tabs
C30_Witness ==
    \E s, t \in Sessions :
        /\ show_intro[s]
        /\ OnlyLanding(s)
        /\ ~show_intro[t]
        /\ pc[t] = "idle"
        /\ kmodes[t].status = "ran"
        /\ cache.hit

====
